---- MODULE Spec2Model ----
(***************************************************************************)
(* A model of the ImageProcessor class of src/main.mjs: the format table,  *)
(* the option merge and cache key, the per-file pipeline (processFile and  *)
(* #processImage), the folder loop (processFolder), and the statistics.    *)
(*                                                                         *)
(* The filesystem and the codec (sharp) are the environment.  An async     *)
(* method is cut at its awaits: one action runs the code between two       *)
(* awaits, with the outcome of the awaited call chosen by the environment. *)
(* Paths are records [dir, name, ext]; PathStr gives their text.           *)
(* Option objects are sequences of <<key, JSON text of the value>> in      *)
(* insertion order, which is what JSON.stringify walks.                    *)
(***************************************************************************)
EXTENDS Integers, Sequences, FiniteSets, TLC

(* ------------------------------------------------------------------ *)
(* Bounds of the model                                                  *)
(* ------------------------------------------------------------------ *)

\* Top-level API calls (processFile, processFolder, clearCache, resetStats)
\* made on one processor.
MaxOps == 2

\* Last value of the millisecond clock read by Date.now().
MaxClock == 3

\* Timers one module loader sets.
MaxTimers == 3

(* ------------------------------------------------------------------ *)
(* Strings                                                              *)
(* ------------------------------------------------------------------ *)

\* String.prototype.toLowerCase on the names and extensions of the model.
ToLowerCase(s) ==
  CASE s = ".PNG" -> ".png"
    [] s = "WEBP" -> "webp"
    [] s = "BMP" -> "bmp"
    [] s = "Format" -> "format"
    [] OTHER -> s

Digit(d) ==
  CASE d = 0 -> "0" [] d = 1 -> "1" [] d = 2 -> "2" [] d = 3 -> "3"
    [] d = 4 -> "4" [] d = 5 -> "5" [] d = 6 -> "6" [] d = 7 -> "7"
    [] d = 8 -> "8" [] d = 9 -> "9"

RECURSIVE NatStr(_)
\* The decimal text of a natural number (template literal of an integer).
NatStr(n) == IF n < 10 THEN Digit(n) ELSE NatStr(n \div 10) \o Digit(n % 10)

Abs(n) == IF n < 0 THEN 0 - n ELSE n

(* ------------------------------------------------------------------ *)
(* Option objects                                                       *)
(* ------------------------------------------------------------------ *)

Keys(o) == {o[i][1] : i \in 1..Len(o)}

HasKey(o, k) == k \in Keys(o)

\* o[k], for a key the object has.
Get(o, k) == o[CHOOSE i \in 1..Len(o) : o[i][1] = k][2]

\* o[k] = v on an object: an existing key keeps its place, a new key goes last.
SetKey(o, k, v) ==
  IF HasKey(o, k)
    THEN [i \in 1..Len(o) |-> IF o[i][1] = k THEN <<k, v>> ELSE o[i]]
    ELSE Append(o, <<k, v>>)

RECURSIVE Spread(_, _)
\* { ...o, ...src }: the properties of src are assigned in src's order.
Spread(o, src) ==
  IF src = <<>> THEN o
  ELSE Spread(SetKey(o, Head(src)[1], Head(src)[2]), Tail(src))

\* A string as JSON text.
Quote(s) == "\"" \o s \o "\""

RECURSIVE Members(_)
Members(o) ==
  IF o = <<>> THEN ""
  ELSE Quote(o[1][1]) \o ":" \o o[1][2]
       \o (IF Len(o) = 1 THEN "" ELSE "," \o Members(Tail(o)))

\* JSON.stringify of an option object: the members in insertion order.
Stringify(o) == "{" \o Members(o) \o "}"

\* Whether o.remove is truthy.
RemoveSet(o) == HasKey(o, "remove") /\ Get(o, "remove") = "true"

\* const { format, ...allOptions } = options
AllOptions(o) == SelectSeq(o, LAMBDA p : p[1] # "format")

(* ------------------------------------------------------------------ *)
(* Paths                                                                *)
(* ------------------------------------------------------------------ *)

\* No path: null, undefined or "" (all falsy).
NoPath == [dir |-> "", name |-> "", ext |-> ""]

PathStr(p) == IF p = NoPath THEN "" ELSE p.dir \o "/" \o p.name \o p.ext

\* path.join(dir, `${base}${ext}`)
Join(dir, base, ext) == [dir |-> dir, name |-> base, ext |-> ext]

(* ------------------------------------------------------------------ *)
(* The format table                                                     *)
(* ------------------------------------------------------------------ *)

FORMAT_MAPPINGS ==
  [f \in {"jpeg", "png", "webp", "avif", "tiff", "gif", "svg"} |->
    CASE f = "jpeg" ->
           [supportedInputs |->
              <<".jpg", ".jpeg", ".png", ".webp", ".tiff", ".avif", ".gif", ".svg">>,
            defaultQuality |-> "80",
            extension |-> ".jpg",
            options |-> << <<"progressive", "true">>,
                           <<"chromaSubsampling", "\"4:4:4\"">>,
                           <<"mozjpeg", "true">> >>]
      [] f = "png" ->
           [supportedInputs |->
              <<".jpg", ".jpeg", ".webp", ".tiff", ".avif", ".gif", ".svg">>,
            defaultQuality |-> "100",
            extension |-> ".png",
            options |-> << <<"compressionLevel", "6">>, <<"palette", "true">> >>]
      [] f = "webp" ->
           [supportedInputs |->
              <<".jpg", ".jpeg", ".png", ".tiff", ".avif", ".gif", ".svg">>,
            defaultQuality |-> "80",
            extension |-> ".webp",
            options |-> << <<"lossless", "false">>, <<"effort", "4">>,
                           <<"nearLossless", "false">>, <<"alphaQuality", "100">> >>]
      [] f = "avif" ->
           [supportedInputs |->
              <<".jpg", ".jpeg", ".png", ".webp", ".tiff", ".gif", ".svg">>,
            defaultQuality |-> "65",
            extension |-> ".avif",
            options |-> << <<"effort", "4">>, <<"chromaSubsampling", "\"4:4:4\"">>,
                           <<"lossless", "false">> >>]
      [] f = "tiff" ->
           [supportedInputs |->
              <<".jpg", ".jpeg", ".png", ".webp", ".avif", ".gif", ".svg">>,
            defaultQuality |-> "100",
            extension |-> ".tiff",
            options |-> << <<"compression", "\"lzw\"">>, <<"quality", "100">>,
                           <<"pyramid", "false">>, <<"tile", "false">> >>]
      [] f = "gif" ->
           [supportedInputs |->
              <<".jpg", ".jpeg", ".png", ".webp", ".tiff", ".avif", ".svg">>,
            defaultQuality |-> "100",
            extension |-> ".gif",
            options |-> << <<"colours", "256">>, <<"dither", "1">> >>]
      [] f = "svg" ->
           [supportedInputs |->
              <<".jpg", ".jpeg", ".png", ".webp", ".tiff", ".avif", ".gif">>,
            defaultQuality |-> "100",
            extension |-> ".svg",
            options |-> << <<"density", "300">> >>]]

\* ImageProcessor.#FORMAT_MAPPINGS[format.toLowerCase()] is defined.
HasFormat(format) == ToLowerCase(format) \in DOMAIN FORMAT_MAPPINGS

FormatConfig(format) == FORMAT_MAPPINGS[ToLowerCase(format)]

\* formatConfig.supportedInputs.includes(ext)
Includes(seq, x) == \E i \in 1..Len(seq) : seq[i] = x

\* ...formatConfig.options, quality: formatConfig.defaultQuality
FormatDefaults(formatConfig) ==
  SetKey(formatConfig.options, "quality", formatConfig.defaultQuality)

\* The object literal with the caller's options spread first.
MergedOptionsDefaultsWin(formatConfig, format, processingOptions) ==
  Spread(processingOptions,
         SetKey(FormatDefaults(formatConfig), "format", Quote(format)))

\* The mergedOptions object literal of processFile.
MergedOptions(formatConfig, format, processingOptions) ==
  Spread(
    SetKey(SetKey(formatConfig.options, "quality", formatConfig.defaultQuality),
           "format", Quote(format)),
    processingOptions)

\* A key made of the file path alone.
CacheKeyPathOnly(filePath, options) == PathStr(filePath)

\* The cacheKey template literal of #processImage.
CacheKey(filePath, options) == PathStr(filePath) \o ":" \o Stringify(options)

(* ------------------------------------------------------------------ *)
(* Results and errors                                                   *)
(* ------------------------------------------------------------------ *)

\* x.toFixed(1) for x = tenths / 10, tenths >= 0.
Fixed1(tenths) == NatStr(tenths \div 10) \o "." \o Digit(tenths % 10)

\* `${x}` for the number x = tenths / 10: no trailing ".0".
NumStr(tenths) ==
  IF tenths % 10 = 0 THEN NatStr(tenths \div 10) ELSE Fixed1(tenths)

\* |savedSize / inputSize * 100| rounded to one decimal, in tenths.
PercentTenths(savedSize, inputSize) ==
  (2 * Abs(savedSize) * 1000 + inputSize) \div (2 * inputSize)

\* (size / 1024).toFixed(2)
KB(size) ==
  LET h == (2 * size * 100 + 1024) \div (2 * 1024)
  IN NatStr(h \div 100) \o "." \o Digit((h \div 10) % 10) \o Digit(h % 10)

\* #formatResultMessage; savingPercent comes as tenths and sign.
FormatResultMessage(fileName, inputSize, outputSize, tenths) ==
  (IF outputSize > inputSize THEN "Size increased" ELSE "Size reduced")
  \o " - " \o fileName
  \o " Original: " \o KB(inputSize) \o "KB"
  \o " New: " \o KB(outputSize) \o "KB"
  \o " Change: " \o (IF outputSize > inputSize THEN "+" ELSE "-")
  \o NumStr(tenths) \o "%"

\* #generateResult
GenerateResult(filePath, inputSize, outputSize) ==
  LET savedSize == inputSize - outputSize
      tenths == PercentTenths(savedSize, inputSize)
      savingPercent == (IF savedSize < 0 THEN "-" ELSE "") \o Fixed1(tenths)
  IN [success |-> TRUE,
      message |->
        FormatResultMessage(filePath.name \o filePath.ext, inputSize, outputSize, tenths),
      stats |-> [inputSize |-> inputSize,
                 outputSize |-> outputSize,
                 savedSize |-> savedSize,
                 savingPercent |->
                   IF savedSize < 0 THEN "+" \o NumStr(tenths)
                   ELSE "-" \o savingPercent]]

\* new Error(message)
Error(message) == [message |-> message]

\* #enhanceError
EnhanceError(error, filePath) ==
  [message |-> "Processing failed for " \o PathStr(filePath) \o ": " \o error.message,
   originalError |-> error,
   filePath |-> filePath]

\* The entry processFolder's catch pushes.
FailureEntry(error) == [success |-> FALSE, message |-> error.message, error |-> error]

(* ------------------------------------------------------------------ *)
(* The environment: files, directories, codec, clock                    *)
(* ------------------------------------------------------------------ *)

\* The source folder and its listing, in fs.readdir's order.
Folder == "in"

DirListing ==
  << [name |-> "a", ext |-> ".jpg"], [name |-> "n", ext |-> ".txt"],
     [name |-> "a", ext |-> ".png"], [name |-> "b", ext |-> ".PNG"] >>

Entries == {DirListing[i] : i \in 1..Len(DirListing)}

\* Input paths a caller hands to processFile; in/x.png does not exist.
FileInputs ==
  {Join(Folder, "a", ".jpg"), Join(Folder, "a", ".png"), Join(Folder, "x", ".png")}

\* Output paths a caller names; NoPath leaves the path to processFile.
FileOutputs == {NoPath, Join("out", "o", ".webp"), Join("ro", "o", ".webp")}

\* Destinations of processFolder.  fs.mkdir fails under "ro".
Dests == {"out", "ro"}

DirCreatable(dir) == dir # "ro"

\* Target format names a caller passes; "bmp" is not in the table.
FormatNames == {"webp", "png", "bmp"}

\* processingOptions a caller passes.
OptionSets ==
  { <<>>,
    << <<"remove", "true">> >>,
    << <<"quality", "50">>, <<"progressive", "true">>, <<"mozjpeg", "true">> >>,
    << <<"mozjpeg", "true">>, <<"progressive", "true">>, <<"quality", "50">> >> }

\* The progressCallback argument of processFolder: none, or a function that
\* returns.  ("throws", a function that throws, is the third behaviour
\* processFolder's code distinguishes.)
Callbacks == {"none", "returns"}

\* The size fs.stat reports for an input file.
InputSize(p) == IF p.name = "b" THEN 102400 ELSE 204800

\* The size fs.stat reports for the file the codec wrote from input p with the
\* extension ext: some conversions shrink the file, others grow it.
OutputSize(p, ext) ==
  IF p.ext = ".jpg" /\ ext = ".webp" THEN 122880 ELSE 256000

\* The timestamps and counters of a fresh processor; null times are 0,
\* Date.now() is at least 1.
NullTime == 0

ZeroStats ==
  [processed |-> 0, failed |-> 0, skipped |-> 0, totalSaved |-> 0,
   startTime |-> NullTime, endTime |-> NullTime]

(* ------------------------------------------------------------------ *)
(* State                                                                *)
(* ------------------------------------------------------------------ *)

VARIABLES
  present,  \* the entries of the source folder that exist (regular, readable files)
  cache,    \* #cache: cache key -> result
  stats,    \* #stats
  now,      \* the last value Date.now() returned
  ops,      \* processFile and processFolder calls made so far
  calls,    \* the calls of the API: where each stands, its arguments and locals
  written,  \* the output paths a codec call has written
  hist,     \* per argument list of processFile, the result of its last success,
            \* and whether the cache still holds what that call stored ("live"),
            \* was cleared last ("cleared"), or was cleared and written again
  conv,     \* the optionsConvert call of the command line: where it stands,
            \* its arguments, its parser object and what it returned
  loader    \* the DynamicModuleLoader that loads the commands: its maps, the
            \* watchers and timers it created, its importModule call in flight

\* The state of the image processor, and the state of the command-line tools.
processorVars == <<present, cache, stats, now, ops, calls, hist, written>>

toolVars == <<conv, loader>>

vars == <<present, cache, stats, now, ops, calls, hist, written, conv, loader>>

\* The slots of calls in flight on one processor.
Calls == {1, 2}

NoResult == [success |-> FALSE, message |-> "", error |-> Error("")]

Pending == [state |-> "pending", value |-> NoResult]

\* A slot no call uses.  kind: "idle", "file" (processFile called by the user)
\* or "folder" (processFolder, and the processFile it is awaiting).
\* pc: the await the call stands at; "next" is processFolder resuming after
\* its await of processFile; "done" is the promise of the call settled.
IdleCall ==
  [kind |-> "idle", pc |-> "done",
   \* processFile and #processImage
   input |-> NoPath, outputArg |-> NoPath, format |-> "", popts |-> <<>>,
   output |-> NoPath, merged |-> <<>>, inputSize |-> 0, result |-> NoResult,
   ret |-> Pending,
   \* processFolder
   dest |-> "", cb |-> "none", imageFiles |-> <<>>, index |-> 0,
   results |-> <<>>, fret |-> [state |-> "pending", value |-> <<>>],
   \* observations of the current processFile call
   \* (io: the filesystem and codec operations it made; cause: what made it
   \* fail; prev, prevState: what hist held for its arguments when it began;
   \* stats0, cache0: #stats and #cache when it began)
   io |-> {}, hit |-> FALSE, gateway |-> <<>>, cause |-> "", prev |-> NoResult,
   prevState |-> "none", stats0 |-> ZeroStats, cache0 |-> <<>>,
   \* observations of the current processFolder run
   \* (listing: what fs.readdir returned; passed: the files handed to
   \* processFile; log: per file, how its processFile call ended; cbLog: the
   \* arguments of the callback's invocations; fstats0: #stats when it began)
   listing |-> <<>>, passed |-> <<>>, log |-> <<>>, cbLog |-> <<>>,
   fstats0 |-> ZeroStats,
   \* the events the current processFile call (ev) and the processFolder run
   \* (fev) emitted on the processor, the filesystem operations processFolder
   \* made itself (fio), and the time of the run's own "processing:start"
   ev |-> <<>>, fev |-> <<>>, fio |-> {}, fstart |-> NullTime,
   \* what made the caller's previous processFile call fail, when the current
   \* one repeats its arguments at once ("" otherwise)
   retry |-> "",
   \* whether another call was pending when the current processFile call began
   overlaps |-> FALSE]

\* fs.access(filePath, R_OK) and fs.stat(filePath).isFile() succeed.
Exists(p) == p.dir = Folder /\ [name |-> p.name, ext |-> p.ext] \in present

\* The value a read of Date.now() returns: later than the last one, up to
\* the last value of the clock.
Tick == IF now < MaxClock THEN now + 1 ELSE now

\* No optionsConvert call has been made.
IdleConv ==
  [pc |-> "idle", args |-> <<>>, others |-> [supportedFormats |-> <<>>],
   parser |-> <<>>, ret |-> [state |-> "pending", error |-> ""]]

\* No importModule call is in flight.
IdleImport == [pc |-> "idle", modulePath |-> "", absolutePath |-> ""]

\* The loader after its constructor.  watchedFiles lists the watched paths in
\* insertion order, the order a Map is walked in.  watchers are the fs.watch
\* handles that are open, each with the originalPath its callbacks closed
\* over; timers are the setTimeout timers that are pending or whose callback
\* is running; last is the last operation or callback and whether it threw.
Loader0 ==
  [moduleCache |-> {}, watchedFiles |-> <<>>, debounceTimers |-> <<>>,
   moduleErrors |-> {}, pathCache |-> <<>>, moduleVersions |-> <<>>,
   watchers |-> <<>>, timers |-> {}, nextTimer |-> 1, call |-> IdleImport,
   last |-> [op |-> "none", threw |-> FALSE, path |-> "", watched |-> {}]]

\* The argument list of a processFile call.
ArgsKey(input, outputArg, format, popts) ==
  <<PathStr(input), PathStr(outputArg), format, popts>>

Init ==
  /\ present = Entries
  /\ cache = <<>>
  /\ stats = ZeroStats
  /\ now = 0
  /\ ops = 0
  /\ calls = [c \in Calls |-> IdleCall]
  /\ hist = <<>>
  /\ written = {}
  /\ conv = IdleConv
  /\ loader = Loader0

(* ------------------------------------------------------------------ *)
(* Helpers of the actions                                               *)
(* ------------------------------------------------------------------ *)

\* #handleProcessingStart and #handleProcessingComplete, t the clock's value.
HandleProcessingStart(st, t) == [st EXCEPT !.startTime = t]

HandleProcessingComplete(st, t) == [st EXCEPT !.endTime = t]

RECURSIVE JoinStrings(_)
\* supportedInputs.join(", ")
JoinStrings(seq) ==
  IF seq = <<>> THEN ""
  ELSE seq[1] \o (IF Len(seq) = 1 THEN "" ELSE ", " \o JoinStrings(Tail(seq)))

\* #validateFormat: the error it throws, or ok.
ValidateFormat(inputPath, format) ==
  LET inputExt == ToLowerCase(inputPath.ext)
  IN IF ~HasFormat(format)
       THEN [ok |-> FALSE, error |-> Error("Unsupported output format: " \o format)]
     ELSE IF ~Includes(FormatConfig(format).supportedInputs, inputExt)
       THEN [ok |-> FALSE,
             error |-> Error("Cannot convert " \o inputExt \o " to " \o format
                             \o ". Supported input formats: "
                             \o JoinStrings(FormatConfig(format).supportedInputs))]
     ELSE [ok |-> TRUE, error |-> Error("")]

\* The promise of the current processFile call settles: processFile emits
\* "processing:complete" and returns, or its catch emits "error" and rethrows.
\* A user's call is done; processFolder resumes after its await.
Settle(rec, state, value) ==
  [rec EXCEPT !.ret = [state |-> state, value |-> value],
              !.ev = Append(@, IF state = "rejected" THEN "error"
                               ELSE "processing:complete"),
              !.pc = IF rec.kind = "folder" THEN "next" ELSE "done"]

\* processFile from its entry to its first await (fs.mkdir), after
\* "processing:start" was emitted: #validateFormat and the output path.
\* A throw is caught by processFile's catch, which emits "error" and rethrows.
EnterProcessFile(rec, input, outputArg, format, popts, st) ==
  LET key == ArgsKey(input, outputArg, format, popts)
      known == key \in DOMAIN hist
      base == [rec EXCEPT
                 !.input = input, !.outputArg = outputArg, !.format = format,
                 !.popts = popts, !.output = NoPath, !.merged = <<>>,
                 !.inputSize = 0, !.result = NoResult, !.ret = Pending,
                 !.io = {}, !.hit = FALSE, !.gateway = <<>>, !.cause = "",
                 !.ev = <<"processing:start">>,
                 !.prev = IF known THEN hist[key].result ELSE NoResult,
                 !.prevState = IF known THEN hist[key].state ELSE "none",
                 !.stats0 = st, !.cache0 = cache]
      v == ValidateFormat(input, format)
  IN IF ~v.ok THEN Settle([base EXCEPT !.cause = "format"], "rejected", v.error)
     ELSE [base EXCEPT
             !.output = IF outputArg # NoPath THEN outputArg
                        ELSE Join(input.dir, input.name, FormatConfig(format).extension),
             !.pc = "mkdir"]

\* FailImage that returns a failure result in place of throwing.
FailImageSwallows(c, rec, cause, error) ==
  /\ stats' = [stats EXCEPT !.failed = @ + 1]
  /\ calls' = [calls EXCEPT ![c] =
       Settle([rec EXCEPT !.cause = cause], "resolved",
              FailureEntry(EnhanceError(error, rec.input)))]

\* FailImage without this.#stats.failed++.
FailImageUncounted(c, rec, cause, error) ==
  /\ stats' = stats
  /\ calls' = [calls EXCEPT ![c] =
       Settle([rec EXCEPT !.cause = cause], "rejected",
              EnhanceError(error, rec.input))]

\* The catch of #processImage: count the failure, enhance the error; the catch
\* of processFile then emits "error" and rethrows.
FailImage(c, rec, cause, error) ==
  /\ stats' = [stats EXCEPT !.failed = @ + 1]
  /\ calls' = [calls EXCEPT ![c] =
       Settle([rec EXCEPT !.cause = cause], "rejected",
              EnhanceError(error, rec.input))]

\* Commit without this.#cache.set(cacheKey, result).
CommitNoStore(c, r, result, t) ==
     /\ cache' = cache
     /\ stats' = HandleProcessingComplete(
                   [stats EXCEPT !.processed = @ + 1,
                                 !.totalSaved = @ + result.stats.savedSize], t)
     /\ now' = t
     /\ hist' = [k \in DOMAIN hist \cup {ArgsKey(r.input, r.outputArg, r.format, r.popts)} |->
                   IF k = ArgsKey(r.input, r.outputArg, r.format, r.popts)
                     THEN [result |-> result, state |-> "live"]
                   ELSE IF hist[k].state = "cleared"
                     THEN [hist[k] EXCEPT !.state = "stale"]
                   ELSE hist[k]]
     /\ calls' = [calls EXCEPT ![c] = Settle([r EXCEPT !.result = result],
                                              "resolved", result)]

\* Commit without this.#stats.totalSaved += result.stats.savedSize.
CommitCountsOnly(c, r, result, t) ==
     /\ cache' = (CacheKey(r.input, r.merged) :> result) @@ cache
     /\ stats' = HandleProcessingComplete([stats EXCEPT !.processed = @ + 1], t)
     /\ now' = t
     /\ hist' = [k \in DOMAIN hist \cup {ArgsKey(r.input, r.outputArg, r.format, r.popts)} |->
                   IF k = ArgsKey(r.input, r.outputArg, r.format, r.popts)
                     THEN [result |-> result, state |-> "live"]
                   ELSE IF hist[k].state = "cleared"
                     THEN [hist[k] EXCEPT !.state = "stale"]
                   ELSE hist[k]]
     /\ calls' = [calls EXCEPT ![c] = Settle([r EXCEPT !.result = result],
                                              "resolved", result)]

\* The end of #processImage's try block: store, count, return; processFile
\* then emits "processing:complete" (at time t) and returns the result.
Commit(c, r, result, t) ==
     /\ cache' = (CacheKey(r.input, r.merged) :> result) @@ cache
     /\ stats' = HandleProcessingComplete(
                   [stats EXCEPT !.processed = @ + 1,
                                 !.totalSaved = @ + result.stats.savedSize], t)
     /\ now' = t
     /\ hist' = [k \in DOMAIN hist \cup {ArgsKey(r.input, r.outputArg, r.format, r.popts)} |->
                   IF k = ArgsKey(r.input, r.outputArg, r.format, r.popts)
                     THEN [result |-> result, state |-> "live"]
                   ELSE IF hist[k].state = "cleared"
                     THEN [hist[k] EXCEPT !.state = "stale"]
                   ELSE hist[k]]
     /\ calls' = [calls EXCEPT ![c] = Settle([r EXCEPT !.result = result],
                                              "resolved", result)]

\* No call is in flight.
Quiet == \A c \in Calls : calls[c].pc = "done"

(* ------------------------------------------------------------------ *)
(* processFile and #processImage                                        *)
(* ------------------------------------------------------------------ *)

\* processFile(options) called by the user: up to the first await.
CallProcessFile(c, input, outputArg, format, popts) ==
  /\ calls[c].pc = "done"
  /\ ops < MaxOps
  /\ ops' = ops + 1
  /\ now' = Tick
  /\ stats' = HandleProcessingStart(stats, Tick)
  /\ calls' = [calls EXCEPT ![c] =
       EnterProcessFile(
         [IdleCall EXCEPT
            !.kind = "file",
            !.overlaps = \E d \in Calls \ {c} : calls[d].pc # "done",
            !.retry = IF /\ calls[c].kind = "file"
                         /\ calls[c].ret.state = "rejected"
                         /\ ArgsKey(calls[c].input, calls[c].outputArg,
                                    calls[c].format, calls[c].popts)
                              = ArgsKey(input, outputArg, format, popts)
                        THEN calls[c].cause ELSE ""],
         input, outputArg, format, popts,
         HandleProcessingStart(stats, Tick))]
  /\ UNCHANGED <<present, cache, hist, written, toolVars>>

\* await fs.mkdir(path.dirname(output), { recursive: true }), then the merge
\* and the call of #processImage up to its first await.
Mkdir(c) ==
  LET r == calls[c]
  IN /\ r.pc = "mkdir"
     /\ calls' = [calls EXCEPT ![c] =
          IF DirCreatable(r.output.dir)
            THEN [r EXCEPT !.io = @ \cup {"mkdir"},
                           !.merged = MergedOptions(FormatConfig(r.format), r.format, r.popts),
                           !.pc = "access"]
            ELSE Settle([r EXCEPT !.io = @ \cup {"mkdir"}, !.cause = "mkdir"],
                        "rejected", Error("EACCES: permission denied, mkdir"))]
     /\ UNCHANGED <<present, cache, stats, now, ops, hist, written, toolVars>>

\* #validateFile: fs.access, fs.stat and isFile.
ValidateFile(c) ==
  LET r == calls[c]
  IN /\ r.pc = "access"
     /\ IF Exists(r.input)
          THEN /\ calls' = [calls EXCEPT ![c] =
                    [r EXCEPT !.io = @ \cup {"access", "stat"}, !.pc = "stat"]]
               /\ UNCHANGED stats
          ELSE FailImage(c, [r EXCEPT !.io = @ \cup {"access"}], "access",
                         Error("Invalid file path: ENOENT: no such file or directory"))
     /\ UNCHANGED <<present, cache, now, ops, hist, written, toolVars>>

\* The cache holds the key: count a skip and return the cached result;
\* processFile then emits "processing:complete" and returns it.
CacheHit(c, r, cacheKey) ==
  /\ now' = Tick
  /\ stats' = HandleProcessingComplete([stats EXCEPT !.skipped = @ + 1], Tick)
  /\ calls' = [calls EXCEPT ![c] =
       Settle([r EXCEPT !.hit = TRUE], "resolved", cache[cacheKey])]

\* CacheMiss that hands sharp the default output path beside the input.
CacheMissBesideInput(c, r) ==
  /\ calls' = [calls EXCEPT ![c] =
       [r EXCEPT !.io = @ \cup {"sharp"},
                 !.gateway = <<PathStr(r.input),
                               PathStr(Join(r.input.dir, r.input.name, r.output.ext)),
                               r.output.ext, AllOptions(r.merged)>>,
                 !.pc = "sharp"]]
  /\ UNCHANGED <<stats, now>>

\* The cache does not hold the key: sharp is called with the output path's
\* extension as format and the merged options less their format.
CacheMiss(c, r) ==
  /\ calls' = [calls EXCEPT ![c] =
       [r EXCEPT !.io = @ \cup {"sharp"},
                 !.gateway = <<PathStr(r.input), PathStr(r.output),
                               r.output.ext, AllOptions(r.merged)>>,
                 !.pc = "sharp"]]
  /\ UNCHANGED <<stats, now>>

\* await fs.stat(filePath) for the input size, then the cache key and the lookup.
StatInput(c) ==
  LET r == calls[c]
      cacheKey == CacheKey(r.input, r.merged)
      r1 == [r EXCEPT !.io = @ \cup {"stat"}]
      r2 == [r1 EXCEPT !.inputSize = InputSize(r.input)]
  IN /\ r.pc = "stat"
     /\ IF ~Exists(r.input)
          THEN /\ FailImage(c, r1, "stat", Error("ENOENT: no such file or directory, stat"))
               /\ UNCHANGED now
        ELSE IF cacheKey \in DOMAIN cache
          THEN CacheHit(c, r2, cacheKey)
        ELSE CacheMiss(c, r2)
     /\ UNCHANGED <<present, cache, ops, hist, written, toolVars>>

\* Sharp whose failure is stored in the cache under the call's key.
SharpCachesFailure(c) ==
  LET r == calls[c]
      error == Error("Input file contains unsupported image format")
  IN /\ r.pc = "sharp"
     /\ \/ /\ FailImage(c, r, "codec", error)
           /\ cache' = (CacheKey(r.input, r.merged) :>
                          FailureEntry(EnhanceError(error, r.input))) @@ cache
        \/ /\ calls' = [calls EXCEPT ![c] = [r EXCEPT !.pc = "statOut"]]
           /\ UNCHANGED <<stats, cache>>
     /\ written' = IF calls'[c].pc = "statOut"
                     THEN written \cup {r.gateway[2]} ELSE written
     /\ UNCHANGED <<present, now, ops, hist, toolVars>>

\* await sharp(filePath)...toFile(outputPath): the codec fails, or writes the
\* output file.
Sharp(c) ==
  LET r == calls[c]
  IN /\ r.pc = "sharp"
     /\ \/ /\ FailImage(c, r, "codec", Error("Input file contains unsupported image format"))
           /\ UNCHANGED written
        \/ /\ calls' = [calls EXCEPT ![c] = [r EXCEPT !.pc = "statOut"]]
           /\ written' = written \cup {r.gateway[2]}
           /\ UNCHANGED stats
     /\ UNCHANGED <<present, cache, now, ops, hist, toolVars>>

\* await fs.stat(outputPath) and #generateResult; without options.remove the
\* rest of the try block follows.
StatOutput(c) ==
  LET r == calls[c]
  IN /\ r.pc = "statOut"
     /\ LET outputSize == OutputSize(r.input, r.output.ext)
            result == GenerateResult(r.input, r.inputSize, outputSize)
        IN IF RemoveSet(r.merged)
             THEN /\ calls' = [calls EXCEPT ![c] =
                       [r EXCEPT !.io = @ \cup {"stat", "unlink"},
                                 !.result = result, !.pc = "unlink"]]
                  /\ UNCHANGED <<cache, stats, now, hist, written, toolVars>>
             ELSE Commit(c, [r EXCEPT !.io = @ \cup {"stat"}], result, Tick)
     /\ UNCHANGED <<present, ops, written, toolVars>>

\* await fs.unlink(filePath), then the rest of the try block.
Unlink(c) ==
  LET r == calls[c]
  IN /\ r.pc = "unlink"
     /\ \/ /\ Exists(r.input)
           /\ present' = present \ {[name |-> r.input.name, ext |-> r.input.ext]}
           /\ Commit(c, r, r.result, Tick)
        \/ /\ FailImage(c, r, "unlink", Error("EPERM: operation not permitted, unlink"))
           /\ UNCHANGED <<present, cache, now, hist>>
     /\ UNCHANGED <<ops, written, toolVars>>

\* clearCache() that leaves #cache as it is.
ClearCacheKeeps ==
  /\ cache' = cache
  /\ hist' = [k \in DOMAIN hist |-> [hist[k] EXCEPT !.state = "cleared"]]
  /\ calls' = [c \in Calls |-> IF calls[c].pc = "done" THEN IdleCall ELSE calls[c]]
  /\ UNCHANGED <<present, stats, now, ops, written, toolVars>>

\* clearCache().  The caller has taken the outcome of a settled call by then.
ClearCache ==
  /\ cache' = <<>>
  /\ hist' = [k \in DOMAIN hist |-> [hist[k] EXCEPT !.state = "cleared"]]
  /\ calls' = [c \in Calls |-> IF calls[c].pc = "done" THEN IdleCall ELSE calls[c]]
  /\ UNCHANGED <<present, stats, now, ops, written, toolVars>>

\* The null of a getStats() field, and a value of one.
Null == [isNull |-> TRUE]

Value(v) == [isNull |-> FALSE, value |-> v]

\* (num / den / 1024).toFixed(2), den > 0.
AverageKB(num, den) ==
  LET h == (2 * Abs(num) * 100 + den * 1024) \div (2 * den * 1024)
  IN (IF num < 0 THEN "-" ELSE "")
     \o NatStr(h \div 100) \o "." \o Digit((h \div 10) % 10) \o Digit(h % 10)

\* getStats() of the counters st.  processingTime is kept in milliseconds
\* (the code divides the difference by 1000); a null time counts as 0 in the
\* subtraction, as null does in JavaScript.
GetStats(st) ==
  [processed |-> st.processed, failed |-> st.failed, skipped |-> st.skipped,
   totalSaved |-> st.totalSaved,
   startTime |-> IF st.startTime = NullTime THEN Null ELSE Value(st.startTime),
   endTime |-> IF st.endTime = NullTime THEN Null ELSE Value(st.endTime),
   processingTime |-> IF st.endTime # NullTime
                        THEN Value(st.endTime - st.startTime) ELSE Null,
   averageSaving |-> IF st.processed # 0
                       THEN Value(AverageKB(st.totalSaved, st.processed) \o " KB")
                       ELSE Null]

\* resetStats() that resets the counters and keeps the timestamps.
ResetStatsKeepsTimes ==
  /\ stats' = [ZeroStats EXCEPT !.startTime = stats.startTime,
                                !.endTime = stats.endTime]
  /\ calls' = [c \in Calls |-> IF calls[c].pc = "done" THEN IdleCall ELSE calls[c]]
  /\ UNCHANGED <<present, cache, now, ops, hist, written, toolVars>>

\* resetStats().  The caller has taken the outcome of a settled call by then.
ResetStats ==
  /\ stats' = ZeroStats
  /\ calls' = [c \in Calls |-> IF calls[c].pc = "done" THEN IdleCall ELSE calls[c]]
  /\ UNCHANGED <<present, cache, now, ops, hist, written, toolVars>>

(* ------------------------------------------------------------------ *)
(* processFolder                                                        *)
(* ------------------------------------------------------------------ *)

\* ImageFiles without the filter: every entry of the listing is taken.
ImageFilesUnfiltered(files, formatConfig) == files

\* The filter of processFolder: the entries whose extension the format accepts.
ImageFiles(files, formatConfig) ==
  SelectSeq(files, LAMBDA file :
    Includes(formatConfig.supportedInputs, ToLowerCase(file.ext)))

\* The head of the for loop, index the position of the next file: past the
\* last file processFolder emits "processing:complete" and returns results;
\* otherwise it calls processFile for imageFiles[index], which emits
\* "processing:start" and runs to its first await.  t is the clock's value.
Iterate(c, rec, index, t) ==
  /\ now' = t
  /\ IF index = Len(rec.imageFiles)
       THEN /\ stats' = HandleProcessingComplete(stats, t)
            /\ calls' = [calls EXCEPT ![c] =
                 [rec EXCEPT !.index = index, !.pc = "done",
                             !.fev = Append(@, "processing:complete"),
                             !.fret = [state |-> "resolved", value |-> rec.results]]]
       ELSE LET file == rec.imageFiles[index + 1]
                input == Join(Folder, file.name, file.ext)
                output == Join(rec.dest, file.name, FormatConfig(rec.format).extension)
            IN /\ stats' = HandleProcessingStart(stats, t)
               /\ calls' = [calls EXCEPT ![c] =
                    EnterProcessFile(
                      [rec EXCEPT !.index = index, !.passed = Append(@, file)],
                      input, output, rec.format, rec.popts,
                      HandleProcessingStart(stats, t))]

\* CallProcessFolder without the format lookup before "processing:start".
CallProcessFolderUnchecked(c, dest, format, popts, cb) ==
  /\ calls[c].pc = "done"
  /\ ops < MaxOps
  /\ ops' = ops + 1
  /\ now' = Tick
  /\ stats' = HandleProcessingStart(stats, Tick)
  /\ calls' = [calls EXCEPT ![c] =
       [IdleCall EXCEPT !.kind = "folder", !.dest = dest, !.format = format,
                        !.popts = popts, !.cb = cb, !.fstats0 = stats,
                        !.pc = "fmkdir", !.fstart = Tick,
                        !.fev = <<"processing:start">>]]
  /\ UNCHANGED <<present, cache, hist, written, toolVars>>

\* processFolder(options, progressCallback) called by the user: the format
\* lookup, which throws for an unknown format, then "processing:start" and
\* the await of fs.mkdir(dest).
CallProcessFolder(c, dest, format, popts, cb) ==
  LET rec == [IdleCall EXCEPT !.kind = "folder", !.dest = dest, !.format = format,
                              !.popts = popts, !.cb = cb, !.fstats0 = stats]
  IN /\ calls[c].pc = "done"
     /\ ops < MaxOps
     /\ ops' = ops + 1
     /\ IF ~HasFormat(format)
          THEN /\ calls' = [calls EXCEPT ![c] =
                    [rec EXCEPT !.fret = [state |-> "rejected",
                                          value |-> Error("Unsupported format: " \o format)]]]
               /\ UNCHANGED <<stats, now>>
          ELSE /\ now' = Tick
               /\ stats' = HandleProcessingStart(stats, Tick)
               /\ calls' = [calls EXCEPT ![c] =
                    [rec EXCEPT !.pc = "fmkdir", !.fstart = Tick,
                                !.fev = <<"processing:start">>]]
     /\ UNCHANGED <<present, cache, hist, written, toolVars>>

\* convertFolderToPNG / WebP / JPEG / AVIF(folder, dest, options) called with
\* a progress callback cb as fourth argument: the methods declare three
\* parameters and call processFolder with the options object alone.
ConvertFolderTo(c, format, dest, popts, cb) ==
  CallProcessFolder(c, dest, format, popts, "none")

\* await fs.mkdir(dest, { recursive: true }); a failure goes to the outer catch.
FolderMkdir(c) ==
  LET r == calls[c]
  IN /\ r.pc = "fmkdir"
     /\ calls' = [calls EXCEPT ![c] =
          IF DirCreatable(r.dest)
            THEN [r EXCEPT !.pc = "readdir", !.fio = @ \cup {"mkdir"}]
            ELSE [r EXCEPT !.pc = "done", !.fio = @ \cup {"mkdir"},
                           !.fev = Append(@, "error"),
                           !.fret = [state |-> "rejected",
                                     value |-> Error("EACCES: permission denied, mkdir")]]]
     /\ UNCHANGED <<present, cache, stats, now, ops, hist, written, toolVars>>

\* await fs.readdir(folder), the filter, and the loop up to its first await.
FolderReaddir(c) ==
  LET r == calls[c]
      files == SelectSeq(DirListing, LAMBDA e : e \in present)
      r1 == [r EXCEPT !.listing = files, !.fio = @ \cup {"readdir"},
                      !.imageFiles = ImageFiles(files, FormatConfig(r.format))]
  IN /\ r.pc = "readdir"
     /\ Iterate(c, r1, 0, Tick)
     /\ UNCHANGED <<present, cache, ops, hist, written, toolVars>>

\* AfterProcessFile whose catch does not record the failure.
AfterProcessFileDropsFailure(r) ==
  LET pushed == Append(r.results, r.ret.value)
      report == [file |-> r.imageFiles[r.index + 1],
                 progress |-> [num |-> (r.index + 1) * 100, den |-> Len(r.imageFiles)],
                 result |-> r.ret.value]
  IN IF r.ret.state = "rejected" THEN r
     ELSE IF r.cb = "none" THEN [r EXCEPT !.results = pushed]
     ELSE [r EXCEPT !.results = pushed, !.cbLog = Append(@, report)]

\* AfterProcessFile with results.unshift in place of results.push.
AfterProcessFileUnshift(r) ==
  LET entry == IF r.ret.state = "rejected" THEN FailureEntry(r.ret.value)
               ELSE r.ret.value
      report == [file |-> r.imageFiles[r.index + 1],
                 progress |-> [num |-> (r.index + 1) * 100, den |-> Len(r.imageFiles)],
                 result |-> r.ret.value]
  IN IF r.ret.state = "rejected" \/ r.cb = "none"
       THEN [r EXCEPT !.results = <<entry>> \o @]
     ELSE [r EXCEPT !.results = <<entry>> \o @, !.cbLog = Append(@, report)]

\* The rest of the loop body once processFile has settled, for the file at
\* r.index: the result is pushed and the callback called inside the try; a
\* throw in the try, by processFile or by the callback, is caught and pushes a
\* failure entry.
AfterProcessFile(r) ==
  LET pushed == Append(r.results, r.ret.value)
      report == [file |-> r.imageFiles[r.index + 1],
                 progress |-> [num |-> (r.index + 1) * 100, den |-> Len(r.imageFiles)],
                 result |-> r.ret.value]
  IN IF r.ret.state = "rejected"
       THEN [r EXCEPT !.results = Append(@, FailureEntry(r.ret.value))]
     ELSE IF r.cb = "none"
       THEN [r EXCEPT !.results = pushed]
     ELSE IF r.cb = "returns"
       THEN [r EXCEPT !.results = pushed, !.cbLog = Append(@, report)]
     ELSE [r EXCEPT !.results = Append(pushed, FailureEntry(Error("callback threw"))),
                    !.cbLog = Append(@, report)]

\* FolderNext that hands the first file of a run whose processFile call was
\* rejected to processFile a second time.
FolderNextRetries(c) ==
  LET r == calls[c]
      r0 == [r EXCEPT !.log = Append(@, [file |-> r.imageFiles[r.index + 1],
                                         input |-> r.input, output |-> r.output,
                                         cause |-> r.cause,
                                         ret |-> r.ret])]
  IN /\ r.kind = "folder"
     /\ r.pc = "next"
     /\ IF r.ret.state = "rejected" /\ Len(r.passed) = r.index + 1
          THEN Iterate(c, r, r.index, Tick)
          ELSE Iterate(c, AfterProcessFile(r0), r.index + 1, Tick)
     /\ UNCHANGED <<present, cache, ops, hist, written, toolVars>>

\* FolderNext without the await: the loop goes on while the codec call of the
\* file it started is in flight.
FolderNextNoAwait(c) ==
  LET r == calls[c]
      r0 == [r EXCEPT !.log = Append(@, [file |-> r.imageFiles[r.index + 1],
                                         input |-> r.input, output |-> r.output,
                                         cause |-> r.cause,
                                         ret |-> r.ret])]
  IN /\ r.kind = "folder"
     /\ r.pc \in {"next", "sharp"}
     /\ Iterate(c, AfterProcessFile(r0), r.index + 1, Tick)
     /\ UNCHANGED <<present, cache, ops, hist, written, toolVars>>

\* processFolder resumes after await this.processFile(...): the rest of the
\* loop body, then the next round of the loop.
FolderNext(c) ==
  LET r == calls[c]
      r0 == [r EXCEPT !.log = Append(@, [file |-> r.imageFiles[r.index + 1],
                                         input |-> r.input, output |-> r.output,
                                         cause |-> r.cause,
                                         ret |-> r.ret])]
  IN /\ r.kind = "folder"
     /\ r.pc = "next"
     /\ Iterate(c, AfterProcessFile(r0), r.index + 1, Tick)
     /\ UNCHANGED <<present, cache, ops, hist, written, toolVars>>

(* ------------------------------------------------------------------ *)
(* The processor used by one caller that awaits each call before the   *)
(* next and whose progress callback returns                             *)
(* ------------------------------------------------------------------ *)

Step(c) ==
  \/ Mkdir(c)
  \/ ValidateFile(c)
  \/ StatInput(c)
  \/ Sharp(c)
  \/ StatOutput(c)
  \/ Unlink(c)
  \/ FolderMkdir(c)
  \/ FolderReaddir(c)
  \/ FolderNext(c)

Next ==
  \/ \E input \in FileInputs, outputArg \in FileOutputs,
        format \in FormatNames, popts \in OptionSets :
       Quiet /\ CallProcessFile(1, input, outputArg, format, popts)
  \/ \E dest \in Dests, format \in FormatNames, popts \in OptionSets, cb \in Callbacks :
       Quiet /\ CallProcessFolder(1, dest, format, popts, cb)
  \/ Quiet /\ ClearCache
  \/ Quiet /\ ResetStats
  \/ \E c \in Calls : Step(c)

Spec == Init /\ [][Next]_vars

(* ------------------------------------------------------------------ *)
(* The processor used by a caller that does not await: calls overlap,   *)
(* and clearCache and resetStats may come while calls are pending       *)
(* ------------------------------------------------------------------ *)

\* The arguments of the overlapping calls.
OverlapInputs == {Join(Folder, "a", ".jpg"), Join(Folder, "x", ".png")}

OverlapOptions == {<<>>, << <<"remove", "true">> >>}

\* Slot 1 holds the caller's first call, slot 2 a processFile call made
\* while it may still be pending.
NextOverlap ==
  \/ \E input \in OverlapInputs, popts \in OverlapOptions :
       CallProcessFile(1, input, NoPath, "webp", popts)
  \/ \E popts \in OverlapOptions :
       CallProcessFolder(1, "out", "webp", popts, "returns")
  \/ \E input \in OverlapInputs, popts \in OverlapOptions :
       CallProcessFile(2, input, NoPath, "webp", popts)
  \/ ClearCache
  \/ ResetStats
  \/ \E c \in Calls : Step(c)

SpecOverlap == Init /\ [][NextOverlap]_vars

(* ------------------------------------------------------------------ *)
(* Two processFile calls that may overlap, with no clearCache and no     *)
(* resetStats                                                           *)
(* ------------------------------------------------------------------ *)

NextRace ==
  \/ \E input \in OverlapInputs, popts \in OverlapOptions :
       CallProcessFile(1, input, NoPath, "webp", popts)
  \/ \E input \in OverlapInputs, popts \in OverlapOptions :
       CallProcessFile(2, input, NoPath, "webp", popts)
  \/ \E c \in Calls :
       \/ Mkdir(c)
       \/ ValidateFile(c)
       \/ StatInput(c)
       \/ Sharp(c)
       \/ StatOutput(c)
       \/ Unlink(c)

SpecRace == Init /\ [][NextRace]_vars

(* ------------------------------------------------------------------ *)
(* processFolder runs when every filesystem and codec call returns: a   *)
(* call in flight takes its next step                                   *)
(* ------------------------------------------------------------------ *)

NextLive ==
  \/ \E dest \in Dests, format \in FormatNames, popts \in OverlapOptions,
        cb \in Callbacks :
       Quiet /\ CallProcessFolder(1, dest, format, popts, cb)
  \/ \E c \in Calls : Step(c)

SpecLive == Init /\ [][NextLive]_vars /\ WF_vars(\E c \in Calls : Step(c))

(* ------------------------------------------------------------------ *)
(* The folder convenience methods, each call given a progress callback  *)
(* that returns                                                         *)
(* ------------------------------------------------------------------ *)

ConvenienceFormats == {"png", "webp", "jpeg", "avif"}

NextConvenience ==
  \/ \E format \in ConvenienceFormats, dest \in Dests, popts \in OverlapOptions :
       Quiet /\ ConvertFolderTo(1, format, dest, popts, "returns")
  \/ \E c \in Calls : Step(c)

SpecConvenience == Init /\ [][NextConvenience]_vars

(* ------------------------------------------------------------------ *)
(* processFolder with a progress callback that throws                   *)
(* ------------------------------------------------------------------ *)

NextThrow ==
  \/ \E dest \in Dests, format \in FormatNames, popts \in OverlapOptions :
       Quiet /\ CallProcessFolder(1, dest, format, popts, "throws")
  \/ \E c \in Calls : Step(c)

SpecThrow == Init /\ [][NextThrow]_vars

(* ------------------------------------------------------------------ *)
(* processFile over the whole format table: every target format, with   *)
(* inputs of several extensions, existing (a) and missing (x)           *)
(* ------------------------------------------------------------------ *)

TableInputs ==
  {Join(Folder, "a", ".jpg"), Join(Folder, "a", ".png"),
   Join(Folder, "x", ".jpeg"), Join(Folder, "x", ".gif")}

TableFormats == DOMAIN FORMAT_MAPPINGS \cup {"bmp"}

NextFormats ==
  \/ \E input \in TableInputs, format \in TableFormats :
       Quiet /\ CallProcessFile(1, input, NoPath, format, <<>>)
  \/ Mkdir(1)
  \/ ValidateFile(1)
  \/ StatInput(1)
  \/ Sharp(1)
  \/ StatOutput(1)

SpecFormats == Init /\ [][NextFormats]_vars

(* ------------------------------------------------------------------ *)
(* processFile over the whole format table with caller options that     *)
(* make the merged options of two formats the same set of pairs         *)
(* ------------------------------------------------------------------ *)

TableOptions ==
  { <<>>,
    << <<"density", "300">>, <<"format", "\"x\"">> >>,
    << <<"colours", "256">>, <<"dither", "1">>, <<"format", "\"x\"">> >> }

NextKeys ==
  \/ \E input \in TableInputs, format \in TableFormats, popts \in TableOptions :
       Quiet /\ CallProcessFile(1, input, NoPath, format, popts)
  \/ Mkdir(1)
  \/ ValidateFile(1)
  \/ StatInput(1)
  \/ Sharp(1)
  \/ StatOutput(1)

SpecKeys == Init /\ [][NextKeys]_vars

(* ------------------------------------------------------------------ *)
(* optionsConvert of src/js/validate.mjs: the options of a command line *)
(* ------------------------------------------------------------------ *)

\* The values of command-line arguments and of the parser's file, folder and
\* dest: booleans, strings and numbers (s the text, n the number).
Bool(b) == [type |-> "boolean", s |-> IF b THEN "true" ELSE "false", n |-> 0]

Str(s) == [type |-> "string", s |-> s, n |-> 0]

Num(n) == [type |-> "number", s |-> "", n |-> n]

\* !value is false.
Truthy(x) ==
  CASE x.type = "boolean" -> x.s = "true"
    [] x.type = "string" -> x.s # ""
    [] OTHER -> x.n # 0

\* x === true, x === false, typeof x === "string"
IsTrue(x) == x.type = "boolean" /\ x.s = "true"

IsFalse(x) == x.type = "boolean" /\ x.s = "false"

IsString(x) == x.type = "string"

Min(a, b) == IF a < b THEN a ELSE b

\* CONFIG of optionsConvert.
CONFIG ==
  [MAX_EFFORT |-> 6, MAX_QUALITY |-> 100, MAX_COMPRESSION |-> 10,
   SUPPORTED_FORMATS |-> <<"png", "jpg", "jpeg", "webp", "avif", "tiff", "gif">>,
   DEFAULT_FORMAT |-> "png", DEFAULT_QUALITY |-> 80, DEFAULT_EFFORT |-> 4]

\* The initial parser object.
Parser0 ==
  [file |-> Bool(FALSE), folder |-> Bool(FALSE), dest |-> Bool(FALSE),
   format |-> CONFIG.DEFAULT_FORMAT,
   processingOptions |-> << <<"quality", NatStr(CONFIG.DEFAULT_QUALITY)>>,
                            <<"effort", NatStr(CONFIG.DEFAULT_EFFORT)>> >>,
   extra |-> <<>>]

\* others.supportedFormats: absent, or the list a command sends.
NoFormats == [defined |-> FALSE, list |-> <<>>]

Formats(list) == [defined |-> TRUE, list |-> list]

\* case "format": an array is truthy, so a list in others accepts any format.
FormatCase(parser, value, others) ==
  IF ~IsString(value)
    THEN [ok |-> FALSE, parser |-> parser,
          error |-> "args[index].value.toLowerCase is not a function"]
  ELSE LET format == ToLowerCase(value.s)
       IN [ok |-> TRUE, error |-> "",
           parser |-> IF \/ others.supportedFormats.defined
                         \/ Includes(CONFIG.SUPPORTED_FORMATS, format)
                        THEN [parser EXCEPT !.format = format] ELSE parser]

\* One round of the loop over Object.keys(args): the switch on the key.
ArgCase(parser, index, value, others) ==
  LET po == parser.processingOptions
      set(k, v) == [ok |-> TRUE, error |-> "",
                    parser |-> [parser EXCEPT !.processingOptions = SetKey(po, k, v)]]
  IN IF ~Truthy(value) THEN [ok |-> TRUE, error |-> "", parser |-> parser]
     ELSE CASE ToLowerCase(index) = "level" ->
                 set("effort", NatStr(Min(value.n, CONFIG.MAX_EFFORT)))
            [] ToLowerCase(index) = "quality" ->
                 set("quality", NatStr(Min(value.n, CONFIG.MAX_QUALITY)))
            [] ToLowerCase(index) = "pnglevel" ->
                 set("compressionLevel", NatStr(Min(value.n, CONFIG.MAX_COMPRESSION)))
            [] ToLowerCase(index) = "format" -> FormatCase(parser, value, others)
            [] OTHER ->
                 [ok |-> TRUE, error |-> "",
                  parser |-> IF index \in {"file", "folder", "dest"}
                               THEN [parser EXCEPT ![index] = value]
                               ELSE [parser EXCEPT !.extra = SetKey(@, index, value.s)]]

RECURSIVE ArgLoop(_, _, _)
\* for (const index of Object.keys(args)): a throw ends the loop.
ArgLoop(parser, args, others) ==
  IF args = <<>> THEN [ok |-> TRUE, error |-> "", parser |-> parser]
  ELSE LET one == ArgCase(parser, Head(args)[1], Head(args)[2], others)
       IN IF one.ok THEN ArgLoop(one.parser, Tail(args), others) ELSE one

\* The catch of optionsConvert: throw new Error(error.message).
ConvThrow(rec, message) ==
  [rec EXCEPT !.pc = "done", !.ret = [state |-> "rejected", error |-> message]]

\* "Handle destination selection": ask for a destination unless one was given.
DestStage(rec) ==
  IF IsFalse(rec.parser.dest) \/ IsTrue(rec.parser.dest)
    THEN [rec EXCEPT !.pc = "selectDest"]
    ELSE [rec EXCEPT !.pc = "done", !.ret = [state |-> "resolved", error |-> ""]]

\* The file/folder validation after the loop, up to the first await.
SelectionStage(rec) ==
  LET p == rec.parser
      one ==
        \/ IsTrue(p.file) /\ ~IsTrue(p.folder) /\ ~IsString(p.folder)
        \/ IsTrue(p.folder) /\ ~IsTrue(p.file) /\ ~IsString(p.file)
        \/ IsString(p.file) /\ ~IsString(p.folder) /\ ~IsTrue(p.folder)
        \/ IsString(p.folder) /\ ~IsString(p.file) /\ ~IsTrue(p.file)
  IN IF one
       THEN IF IsTrue(p.file) THEN [rec EXCEPT !.pc = "selectFile"]
            ELSE IF IsTrue(p.folder) THEN [rec EXCEPT !.pc = "selectFolder"]
            ELSE DestStage(rec)
     ELSE IF IsFalse(p.file) /\ IsFalse(p.folder)
       THEN [rec EXCEPT !.pc = "selectFile"]
     ELSE ConvThrow(rec, "Only one argument (--file or --folder) can be used, not both at the same time.")

\* optionsConvert(resp, args, others) called: the loop and the validation up
\* to the first dialog.
CallOptionsConvert(args, others) ==
  LET loop == ArgLoop(Parser0, args, others)
      rec == [IdleConv EXCEPT !.args = args, !.others = others,
                              !.parser = loop.parser]
  IN /\ conv.pc \in {"idle", "done"}
     /\ conv' = IF loop.ok THEN SelectionStage(rec) ELSE ConvThrow(rec, loop.error)
     /\ UNCHANGED <<processorVars, loader>>

\* What a dialog of FILE_SELECT returns: null when cancelled.
Cancelled == ""

\* await FILE_SELECT.selectFile(...)
SelectFile(selected) ==
  /\ conv.pc = "selectFile"
  /\ conv' = IF selected = Cancelled
               THEN ConvThrow(conv, "Process interrupted: File selection cancelled.")
               ELSE DestStage([conv EXCEPT !.parser.file = Str(selected)])
  /\ UNCHANGED <<processorVars, loader>>

\* await FILE_SELECT.selectDirectory(...) for the folder
SelectFolder(selected) ==
  /\ conv.pc = "selectFolder"
  /\ conv' = IF selected = Cancelled
               THEN ConvThrow(conv, "Process interrupted: Folder selection cancelled.")
               ELSE DestStage([conv EXCEPT !.parser.folder = Str(selected)])
  /\ UNCHANGED <<processorVars, loader>>

\* await FILE_SELECT.selectDirectory(...) for the destination, then return.
SelectDest(selected) ==
  /\ conv.pc = "selectDest"
  /\ conv' = IF selected = Cancelled
               THEN ConvThrow(conv, "Process interrupted: Destination selection cancelled.")
               ELSE [conv EXCEPT !.parser.dest = Str(selected), !.pc = "done",
                                 !.ret = [state |-> "resolved", error |-> ""]]
  /\ UNCHANGED <<processorVars, loader>>

\* The argument objects of the command lines, keys in the order given.
ConvArgs ==
  { <<>>,
    << <<"format", Str("webp")>> >>,
    << <<"format", Str("WEBP")>>, <<"file", Str("in/a.jpg")>>, <<"dest", Str("out")>> >>,
    << <<"Format", Str("bmp")>>, <<"folder", Bool(TRUE)>> >>,
    << <<"format", Str("BMP")>>, <<"file", Bool(TRUE)>>, <<"quality", Num(120)>> >>,
    << <<"format", Str("heif")>>, <<"folder", Str("in")>>, <<"pnglevel", Num(9)>> >>,
    << <<"format", Str("")>>, <<"level", Num(5)>>, <<"dest", Bool(TRUE)>> >>,
    << <<"format", Bool(TRUE)>> >>,
    << <<"format", Str("gif")>>, <<"file", Str("in/a.png")>> >>,
    << <<"format", Str("png")>>, <<"folder", Str("in")>>, <<"dest", Str("out")>> >>,
    << <<"file", Bool(TRUE)>>, <<"folder", Bool(TRUE)>> >> }

\* The third argument: without a list, or with the list of the png command.
ConvOthers ==
  { [supportedFormats |-> NoFormats],
    [supportedFormats |->
       Formats(<<"jpg", "jpeg", "gif", "heif", "webp", "tiff", "avif">>)] }

Dialog == {Cancelled, "pictures/a.jpg", "pictures/b.png", "home"}

NextValidate ==
  \/ \E args \in ConvArgs, others \in ConvOthers : CallOptionsConvert(args, others)
  \/ \E selected \in Dialog : SelectFile(selected)
  \/ \E selected \in Dialog : SelectFolder(selected)
  \/ \E selected \in Dialog : SelectDest(selected)

SpecValidate == Init /\ [][NextValidate]_vars

(* ------------------------------------------------------------------ *)
(* DynamicModuleLoader of src/utils/loadModule.mjs: the loader of the   *)
(* commands.  fs.stat, import(), the file watchers and the timers are   *)
(* the environment; the events the loader emits have no listener here   *)
(* ------------------------------------------------------------------ *)

\* The file that calls the loader, and the callerFile of a call made with
\* one argument.
CallerFile == [defined |-> TRUE, s |-> "/app/cli.mjs"]

Undefined == [defined |-> FALSE, s |-> ""]

\* The modules the commands import, as written in the import and as resolved.
ModulePaths == {"./png.mjs", "./jpg.mjs"}

AbsolutePaths == {"/app/png.mjs", "/app/jpg.mjs"}

\* What fs.promises.stat gives: a rejection, or the stats with their mtimeMs.
StatOutcomes ==
  {[ok |-> FALSE, mtimeMs |-> 0]} \cup {[ok |-> TRUE, mtimeMs |-> m] : m \in {1, 2}}

\* The timers setTimeout can give.
Timers ==
  [id : 1..MaxTimers, path : AbsolutePaths, pc : {"pending", "stat", "import"}]

\* `${callerFile}` of a template literal.
Template(callerFile) == IF callerFile.defined THEN callerFile.s ELSE "undefined"

\* path.dirname and path.resolve on the paths of the model.
Dirname(file) == CASE file = "/app/cli.mjs" -> "/app" [] OTHER -> "."

PathResolve(dir, p) ==
  CASE dir = "/app" /\ p = "./png.mjs" -> "/app/png.mjs"
    [] dir = "/app" /\ p = "./jpg.mjs" -> "/app/jpg.mjs"
    [] OTHER -> p

\* Map.prototype.delete.
Remove(map, key) == [k \in DOMAIN map \ {key} |-> map[k]]

\* What an operation or callback leaves in last: its name, whether it threw,
\* the path it was about and the paths that were watched when it began.
Last(op, threw, path, watched) ==
  [op |-> op, threw |-> threw, path |-> path, watched |-> watched]

Watched(L) == {L.watchedFiles[i] : i \in 1..Len(L.watchedFiles)}

\* resolveModulePath: path.dirname throws a TypeError when callerFile is not
\* a string.
ResolveModulePath(L, modulePath, callerFile) ==
  LET cacheKey == Template(callerFile) \o ":" \o modulePath
  IN IF cacheKey \in DOMAIN L.pathCache
       THEN [threw |-> FALSE, path |-> L.pathCache[cacheKey], loader |-> L]
     ELSE IF ~callerFile.defined
       THEN [threw |-> TRUE, path |-> "", loader |-> L]
     ELSE LET callerDir == Dirname(callerFile.s)
              resolvedPath == PathResolve(callerDir, modulePath)
          IN [threw |-> FALSE, path |-> resolvedPath,
              loader |-> [L EXCEPT !.pathCache = (cacheKey :> resolvedPath) @@ @]]

\* #updateModuleVersion once its stat has resolved.
UpdateModuleVersion(L, absolutePath, newVersion) ==
  IF absolutePath \in DOMAIN L.moduleVersions
     /\ L.moduleVersions[absolutePath] = newVersion
    THEN [changed |-> FALSE, loader |-> L]
    ELSE [changed |-> TRUE,
          loader |-> [L EXCEPT !.moduleVersions =
                        (absolutePath :> newVersion) @@ @]]

\* #setupWatcher.
SetupWatcher(L, absolutePath, originalPath) ==
  IF ~Includes(L.watchedFiles, absolutePath)
    THEN [L EXCEPT !.watchers = (absolutePath :> originalPath) @@ @,
                   !.watchedFiles = Append(@, absolutePath)]
    ELSE L

\* The finally block of the timer callback of #reloadModule.
ReloadFinally(L, t) ==
  [L EXCEPT !.timers = @ \ {t},
            !.debounceTimers = Remove(@, t.path)]

\* The catch block of the timer callback, then its finally block.
ReloadCatch(L, t) ==
  LET M == [L EXCEPT !.moduleErrors = @ \cup {t.path}]
  IN [ReloadFinally(M, t) EXCEPT
        !.last = Last("reload", t.path \notin M.moduleCache, t.path, {})]

\* unwatchModule.
UnwatchModuleOf(L, modulePath, callerFile) ==
  LET res == ResolveModulePath(L, modulePath, callerFile)
      M == res.loader
      absolutePath == res.path
      cacheKey == Template(callerFile) \o ":" \o modulePath
  IN IF res.threw THEN [threw |-> TRUE, loader |-> L]
     ELSE IF Includes(M.watchedFiles, absolutePath)
       THEN [threw |-> FALSE,
             loader |->
               [M EXCEPT
                  !.watchers = Remove(@, absolutePath),
                  !.watchedFiles = SelectSeq(@, LAMBDA p : p # absolutePath),
                  !.moduleCache = @ \ {absolutePath},
                  !.moduleVersions = Remove(@, absolutePath),
                  !.pathCache = Remove(@, cacheKey),
                  !.moduleErrors = @ \ {absolutePath}]]
     ELSE [threw |-> FALSE, loader |-> M]

\* The loop of unwatchAll over the keys of watchedFiles.
RECURSIVE UnwatchAllLoop(_, _)
UnwatchAllLoop(L, keys) ==
  IF keys = <<>> THEN [threw |-> FALSE, loader |-> L]
  ELSE LET r == UnwatchModuleOf(L, Head(keys), Undefined)
       IN IF r.threw THEN r ELSE UnwatchAllLoop(r.loader, Tail(keys))

\* importModule up to its first await, or to its return.
CallImportModule(modulePath, callerFile) ==
  /\ loader.call.pc = "idle"
  /\ LET res == ResolveModulePath(loader, modulePath, callerFile)
         M == res.loader
         absolutePath == res.path
     IN loader' =
          IF res.threw
            THEN [loader EXCEPT !.last = Last("importModule", TRUE, "", {})]
          ELSE IF absolutePath \in M.moduleErrors /\ absolutePath \in M.moduleCache
            THEN [M EXCEPT !.last = Last("importModule", FALSE, absolutePath, {})]
          ELSE [M EXCEPT
                  !.call = [pc |-> IF absolutePath \notin M.moduleCache
                                     THEN "import" ELSE "stat",
                            modulePath |-> modulePath,
                            absolutePath |-> absolutePath],
                  !.last = Last("call", FALSE, absolutePath, {})]
  /\ UNCHANGED <<processorVars, conv>>

\* importModule after the stat of #updateModuleVersion.
ImportStat(stat) ==
  /\ loader.call.pc = "stat"
  /\ LET absolutePath == loader.call.absolutePath
         upd == UpdateModuleVersion(loader, absolutePath, stat.mtimeMs)
     IN loader' =
          IF ~stat.ok
            THEN [loader EXCEPT !.moduleErrors = @ \cup {absolutePath},
                                !.call = IdleImport,
                                !.last = Last("importModule", TRUE, absolutePath, {})]
          ELSE IF upd.changed
            THEN [upd.loader EXCEPT !.call.pc = "import",
                                    !.last = Last("call", FALSE, absolutePath, {})]
          ELSE [loader EXCEPT !.call = IdleImport,
                              !.last = Last("importModule", FALSE, absolutePath, {})]
  /\ UNCHANGED <<processorVars, conv>>

\* importModule after its import().
ImportLoad(ok) ==
  /\ loader.call.pc = "import"
  /\ LET absolutePath == loader.call.absolutePath
         M == [loader EXCEPT !.moduleCache = @ \cup {absolutePath}]
     IN loader' =
          IF ok
            THEN [SetupWatcher(M, absolutePath, loader.call.modulePath) EXCEPT
                    !.call = IdleImport,
                    !.last = Last("importModule", FALSE, absolutePath, {})]
            ELSE [loader EXCEPT !.moduleErrors = @ \cup {absolutePath},
                                !.call = IdleImport,
                                !.last = Last("importModule", TRUE, absolutePath, {})]
  /\ UNCHANGED <<processorVars, conv>>

\* A change of a watched file: the callback of fs.watch runs #reloadModule.
\* clearTimeout stops a timer that has not fired and does nothing to one
\* whose callback has started.
Notify(absolutePath) ==
  /\ absolutePath \in DOMAIN loader.watchers
  /\ loader.nextTimer <= MaxTimers
  /\ LET recorded == absolutePath \in DOMAIN loader.debounceTimers
         cleared == {t \in loader.timers :
                       /\ recorded
                       /\ t.id = loader.debounceTimers[absolutePath]
                       /\ t.pc = "pending"}
         timer == [id |-> loader.nextTimer, path |-> absolutePath,
                   pc |-> "pending"]
     IN loader' =
          [loader EXCEPT
             !.timers = (@ \ cleared) \cup {timer},
             !.debounceTimers = (absolutePath :> timer.id) @@ @,
             !.nextTimer = @ + 1,
             !.last = Last("change", FALSE, absolutePath, {})]
  /\ UNCHANGED <<processorVars, conv>>

\* A timer fires after its 50 ms: its callback runs up to the stat.
TimerFire(t) ==
  /\ t \in loader.timers
  /\ t.pc = "pending"
  /\ loader' = [loader EXCEPT
                  !.timers = (@ \ {t}) \cup {[t EXCEPT !.pc = "stat"]},
                  !.last = Last("timer", FALSE, t.path, {})]
  /\ UNCHANGED <<processorVars, conv>>

\* The callback after the stat of #updateModuleVersion.
TimerStat(t, stat) ==
  /\ t \in loader.timers
  /\ t.pc = "stat"
  /\ LET upd == UpdateModuleVersion(loader, t.path, stat.mtimeMs)
     IN loader' =
          IF ~stat.ok THEN ReloadCatch(loader, t)
          ELSE IF upd.changed
            THEN [upd.loader EXCEPT
                    !.timers = (@ \ {t}) \cup {[t EXCEPT !.pc = "import"]},
                    !.last = Last("timer", FALSE, t.path, {})]
          ELSE [ReloadFinally(loader, t) EXCEPT
                  !.last = Last("reload", FALSE, t.path, {})]
  /\ UNCHANGED <<processorVars, conv>>

\* The callback after its import().
TimerImport(t, ok) ==
  /\ t \in loader.timers
  /\ t.pc = "import"
  /\ LET M == [loader EXCEPT !.moduleCache = @ \cup {t.path},
                             !.moduleErrors = @ \ {t.path}]
     IN loader' =
          IF ok
            THEN [ReloadFinally(M, t) EXCEPT
                    !.last = Last("reload", FALSE, t.path, {})]
            ELSE ReloadCatch(loader, t)
  /\ UNCHANGED <<processorVars, conv>>

\* The error event of a watcher, whose handle fs closes before it emits the
\* event: the handler calls unwatchModule(originalPath) with no callerFile.
WatchError(absolutePath) ==
  /\ absolutePath \in DOMAIN loader.watchers
  /\ LET originalPath == loader.watchers[absolutePath]
         L == [loader EXCEPT !.watchers = Remove(@, absolutePath)]
         r == UnwatchModuleOf(L, originalPath, Undefined)
     IN loader' = [r.loader EXCEPT
                     !.last = Last("watchError", r.threw, absolutePath,
                                   Watched(loader))]
  /\ UNCHANGED <<processorVars, conv>>

\* unwatchModule called by the application.
UnwatchModule(modulePath, callerFile) ==
  /\ LET r == UnwatchModuleOf(loader, modulePath, callerFile)
     IN loader' = [r.loader EXCEPT
                     !.last = Last("unwatchModule", r.threw, "", Watched(loader))]
  /\ UNCHANGED <<processorVars, conv>>

\* unwatchAll.
UnwatchAll ==
  /\ LET r == UnwatchAllLoop(loader, loader.watchedFiles)
     IN loader' = [r.loader EXCEPT
                     !.last = Last("unwatchAll", r.threw, "", Watched(loader))]
  /\ UNCHANGED <<processorVars, conv>>

\* clearError.
ClearError(modulePath, callerFile) ==
  /\ LET res == ResolveModulePath(loader, modulePath, callerFile)
     IN loader' =
          IF res.threw
            THEN [loader EXCEPT !.last = Last("clearError", TRUE, "", {})]
            ELSE [res.loader EXCEPT
                    !.moduleErrors = @ \ {res.path},
                    !.last = Last("clearError", FALSE, res.path, {})]
  /\ UNCHANGED <<processorVars, conv>>

\* One module of one command is imported and watched, its file changes and
\* the debounce timers run; the application may stop watching it.
NextReload ==
  \/ CallImportModule("./png.mjs", CallerFile)
  \/ \E stat \in StatOutcomes : ImportStat(stat)
  \/ \E ok \in BOOLEAN : ImportLoad(ok)
  \/ Notify("/app/png.mjs")
  \/ \E t \in Timers : TimerFire(t)
  \/ \E t \in Timers, stat \in StatOutcomes : TimerStat(t, stat)
  \/ \E t \in Timers, ok \in BOOLEAN : TimerImport(t, ok)
  \/ UnwatchModule("./png.mjs", CallerFile)

SpecReload == Init /\ [][NextReload]_vars

\* The modules of two commands are imported and watched, watchers fail and
\* the application stops watching; the files do not change meanwhile.
NextUnwatch ==
  \/ \E modulePath \in ModulePaths, callerFile \in {CallerFile, Undefined} :
       CallImportModule(modulePath, callerFile)
  \/ \E stat \in StatOutcomes : ImportStat(stat)
  \/ \E ok \in BOOLEAN : ImportLoad(ok)
  \/ \E absolutePath \in AbsolutePaths : WatchError(absolutePath)
  \/ \E modulePath \in ModulePaths, callerFile \in {CallerFile, Undefined} :
       UnwatchModule(modulePath, callerFile)
  \/ UnwatchAll
  \/ \E modulePath \in ModulePaths : ClearError(modulePath, CallerFile)

SpecUnwatch == Init /\ [][NextUnwatch]_vars

(* ------------------------------------------------------------------ *)
(* Properties                                                           *)
(* ------------------------------------------------------------------ *)

\* The processFile call of slot c (the user's, or the one processFolder
\* awaited last) has settled and its outcome has not been taken yet.
Settled(c) ==
  /\ calls[c].kind # "idle"
  /\ calls[c].ret.state # "pending"
  /\ calls[c].pc \in {"done", "next"}

\* The processFolder call of slot c has returned its results.
FolderResolved(c) ==
  /\ calls[c].kind = "folder"
  /\ calls[c].pc = "done"
  /\ calls[c].fret.state = "resolved"

\* The entry's extension is in the format's accepted input set.
Eligible(file, format) ==
  ToLowerCase(file.ext) \in
    {FormatConfig(format).supportedInputs[i] :
       i \in 1..Len(FormatConfig(format).supportedInputs)}

\* The eligible entries of a listing, in the listing's order.
EligibleOf(listing, format) == SelectSeq(listing, LAMBDA e : Eligible(e, format))

\* Two option objects hold the same key/value pairs.
SameMap(a, b) ==
  /\ Len(a) = Len(b)
  /\ {a[i] : i \in 1..Len(a)} = {b[i] : i \in 1..Len(b)}

\* C1 (as claimed): a processFile call whose argument list already succeeded
\* once, with no clearCache since, returns the result of that first call and
\* makes no codec call, whatever the options (remove included).
C1_CacheIdempotence ==
  \A c \in Calls :
    Settled(c) /\ calls[c].prevState = "live" =>
      /\ calls[c].ret.state = "resolved"
      /\ calls[c].ret.value = calls[c].prev
      /\ "sharp" \notin calls[c].io

\* C1 (amended): such a second call never calls the codec again; it returns
\* the first call's result if the input file still exists, and is rejected
\* by the file validation if it does not (remove made the first call delete it).
C1_SecondCallUsesCache ==
  \A c \in Calls :
    Settled(c) /\ calls[c].prevState = "live" =>
      /\ "sharp" \notin calls[c].io
      /\ IF Exists(calls[c].input)
           THEN /\ calls[c].ret.state = "resolved"
                /\ calls[c].ret.value = calls[c].prev
           ELSE /\ calls[c].ret.state = "rejected"
                /\ calls[c].cause = "access"
                /\ stats.failed = calls[c].stats0.failed + 1

\* A second identical call was served from the cache.
C1_Witness ==
  \E c \in Calls :
    /\ Settled(c) /\ calls[c].prevState = "live"
    /\ calls[c].hit /\ calls[c].ret.value = calls[c].prev
    /\ calls[c].ret.value.success

\* C2: a processFolder run in which the only failures are codec failures, of
\* k of the N eligible files, resolves with N results; exactly the k files
\* have success:false, the others hold their processFile results, and
\* `failed` has grown by k.  A run is rejected only before its first file.
C2_PartialFailure ==
  \A c \in Calls :
    LET r == calls[c]
        N == Len(EligibleOf(r.listing, r.format))
        failing == {i \in 1..Len(r.log) : r.log[i].cause = "codec"}
    IN /\ r.kind = "folder" /\ r.fret.state = "rejected" => r.passed = <<>>
       /\ (/\ FolderResolved(c)
           /\ \A i \in 1..Len(r.log) : r.log[i].cause \in {"", "codec"})
          => /\ Len(r.results) = N
             /\ Len(r.log) = N
             /\ \A i \in 1..N :
                  /\ r.results[i].success = (i \notin failing)
                  /\ i \notin failing => r.results[i] = r.log[i].ret.value
             /\ stats.failed = r.fstats0.failed + Cardinality(failing)

\* A run over three eligible files on a fresh processor in which the codec
\* failed for exactly one: three results, failed = 1.
C2_Witness ==
  \E c \in Calls :
    /\ FolderResolved(c)
    /\ Len(calls[c].results) = 3
    /\ calls[c].fstats0.failed = 0 /\ calls[c].fstats0.processed = 0
    /\ Cardinality({i \in 1..3 : calls[c].log[i].cause = "codec"}) = 1
    /\ Cardinality({i \in 1..3 : ~calls[c].results[i].success}) = 1
    /\ stats.failed = 1

C4_InputOrder ==
  \A c \in Calls :
    LET r == calls[c]
        el == EligibleOf(r.listing, r.format)
    IN FolderResolved(c) =>
         /\ Len(r.results) = Len(el)
         /\ Len(r.log) = Len(el)
         /\ \A i \in 1..Len(el) :
              /\ r.log[i].file = el[i]
              /\ r.log[i].input = Join(Folder, el[i].name, el[i].ext)
              /\ r.results[i] =
                   IF r.log[i].ret.state = "resolved" THEN r.log[i].ret.value
                   ELSE FailureEntry(r.log[i].ret.value)

\* A run returned a failure between two successes.
C4_Witness ==
  \E c \in Calls :
    /\ FolderResolved(c)
    /\ Len(calls[c].results) = 3
    /\ calls[c].results[1].success
    /\ ~calls[c].results[2].success
    /\ calls[c].results[3].success

\* C5 (as claimed): a run with a progress callback invokes it once per
\* eligible file, failed files included.
C5_CallbackPerFile ==
  \A c \in Calls :
    FolderResolved(c) /\ calls[c].cb # "none" =>
      /\ Len(calls[c].cbLog) = Len(calls[c].imageFiles)
      /\ \A i \in 1..Len(calls[c].cbLog) :
           calls[c].cbLog[i].file = calls[c].imageFiles[i]

\* C6 (as claimed): the progress values of a run do not decrease and the
\* run's last file is reported with progress 100, also when files fail.
C6_ProgressReaches100 ==
  \A c \in Calls :
    LET r == calls[c]
        n == Len(r.cbLog)
    IN FolderResolved(c) /\ r.cb # "none" /\ Len(r.imageFiles) >= 1 =>
         /\ \A i \in 1..n, j \in 1..n :
              i < j => r.cbLog[i].progress.num * r.cbLog[j].progress.den
                         <= r.cbLog[j].progress.num * r.cbLog[i].progress.den
         /\ n >= 1
         /\ r.cbLog[n].file = r.imageFiles[Len(r.imageFiles)]
         /\ r.cbLog[n].progress.num = 100 * r.cbLog[n].progress.den

\* C7: the cache is empty once clearCache() has run, and a processFile call
\* whose argument list succeeded before that clearCache(), made before
\* anything is stored again and with its input still there, misses the
\* cache and calls the codec.
C7_ClearCacheForgets ==
  /\ (\E k \in DOMAIN hist : hist[k].state = "cleared") => cache = <<>>
  /\ \A c \in Calls :
       calls[c].prevState = "cleared" /\ calls[c].inputSize # 0 =>
         /\ ~calls[c].hit
         /\ "sharp" \in calls[c].io

\* After clearCache(), a repeated call converted its input again.
C7_Witness ==
  \E c \in Calls :
    /\ Settled(c) /\ calls[c].prevState = "cleared"
    /\ "sharp" \in calls[c].io
    /\ calls[c].ret.state = "resolved"

\* C8 (as claimed): a call that reaches the cache lookup while the cache
\* holds the result of a call on the same input and format whose options
\* were the same pairs in another insertion order is a cache hit.
C8_KeyOrderIndependent ==
  \A c \in Calls :
    LET r == calls[c]
    IN (/\ r.inputSize # 0
        /\ \E k \in DOMAIN hist :
             /\ hist[k].state = "live"
             /\ k[1] = PathStr(r.input) /\ k[3] = r.format
             /\ k[4] # r.popts /\ SameMap(k[4], r.popts))
       => r.hit

\* C9: a call served from the cache made no filesystem call (mkdir, access,
\* stat, unlink) and no codec call between its start and its return.
C9_HitWithoutIO ==
  \A c \in Calls : calls[c].hit => calls[c].io = {}

\* C10: a processFile call in which the codec failed is rejected with an
\* error that carries the codec's error and the input path; it adds one to
\* `failed` and leaves `processed`, `totalSaved` and the cache as they were.
C10_CodecFailure ==
  \A c \in Calls :
    LET r == calls[c]
    IN Settled(c) /\ r.cause = "codec" =>
         /\ r.ret.state = "rejected"
         /\ r.ret.value.originalError =
              Error("Input file contains unsupported image format")
         /\ r.ret.value.filePath = r.input
         /\ stats.failed = r.stats0.failed + 1
         /\ stats.processed = r.stats0.processed
         /\ stats.totalSaved = r.stats0.totalSaved
         /\ stats.skipped = r.stats0.skipped
         /\ cache = r.cache0

\* The codec failed in a call made after a successful one.
C10_Witness ==
  \E c \in Calls :
    /\ Settled(c) /\ calls[c].cause = "codec" /\ calls[c].kind = "file"
    /\ calls[c].stats0.processed = 1 /\ cache # <<>>

\* The input path names no entry the source folder ever had.
NeverExisted(p) == ~(p.dir = Folder /\ [name |-> p.name, ext |-> p.ext] \in Entries)

\* C11: a processFile call that met a failure (target format unknown, input
\* extension not accepted, output directory not creatable, input missing,
\* codec failure, or any other failure it recorded) is rejected with an
\* error; a call that resolved met none and returns a success result.
C11_NoSwallowing ==
  \A c \in Calls :
    LET r == calls[c]
    IN Settled(c) =>
         /\ r.cause # "" => r.ret.state = "rejected" /\ r.ret.value.message # ""
         /\ ~ValidateFormat(r.input, r.format).ok =>
              r.ret.state = "rejected" /\ r.cause = "format"
         /\ ValidateFormat(r.input, r.format).ok /\ ~DirCreatable(r.output.dir) =>
              r.ret.state = "rejected" /\ r.cause = "mkdir"
         /\ (/\ ValidateFormat(r.input, r.format).ok
             /\ DirCreatable(r.output.dir)
             /\ NeverExisted(r.input)) =>
              r.ret.state = "rejected" /\ r.cause = "access"
         /\ r.ret.state = "resolved" => r.cause = "" /\ r.ret.value.success

\* A user's processFile call was rejected for a missing input, and the
\* failure was counted.
C11_Witness ==
  \E c \in Calls :
    /\ Settled(c) /\ calls[c].kind = "file"
    /\ calls[c].cause = "access" /\ calls[c].ret.state = "rejected"
    /\ stats.failed > 0

C13_UnlinkFailureKeepsResult ==
  \A c \in Calls :
    LET r == calls[c]
    IN Settled(c) /\ r.cause = "unlink" =>
         /\ r.ret.state = "resolved"
         /\ r.ret.value = r.result
         /\ CacheKey(r.input, r.merged) \in DOMAIN cache
         /\ stats.processed = r.stats0.processed + 1
         /\ stats.failed = r.stats0.failed

\* C14: a processFile call whose input extension the format accepts and whose
\* codec call succeeded resolves with success:true and
\* savedSize = inputSize - outputSize; 204800 -> 122880 bytes gives 81920 and
\* "-40.0".
C14_SavedSizeExact ==
  \A c \in Calls :
    LET r == calls[c]
        s == r.ret.value.stats
    IN Settled(c) /\ "sharp" \in r.io /\ r.cause # "codec" =>
         /\ r.ret.state = "resolved"
         /\ r.ret.value.success
         /\ s.inputSize = InputSize(r.input)
         /\ s.outputSize = OutputSize(r.input, r.output.ext)
         /\ s.savedSize = s.inputSize - s.outputSize
         /\ (s.inputSize = 204800 /\ s.outputSize = 122880) =>
              s.savedSize = 81920 /\ s.savingPercent = "-40.0"

\* The part of C14 the code keeps: every call that went through the codec
\* and resolved carries the exact difference.
SavedSizeExactWhenResolved ==
  \A c \in Calls :
    LET r == calls[c]
        s == r.ret.value.stats
    IN Settled(c) /\ "sharp" \in r.io /\ r.ret.state = "resolved" =>
         /\ r.ret.value.success
         /\ s.savedSize = InputSize(r.input) - OutputSize(r.input, r.output.ext)
         /\ (s.inputSize = 204800 /\ s.outputSize = 122880) =>
              s.savedSize = 81920 /\ s.savingPercent = "-40.0"

\* What getStats() returns for a processor whose statistics were reset.
ZeroSnapshot ==
  [processed |-> 0, failed |-> 0, skipped |-> 0, totalSaved |-> 0,
   startTime |-> Null, endTime |-> Null,
   processingTime |-> Null, averageSaving |-> Null]

\* C15: right after resetStats(), whatever the state it was called in,
\* getStats() reports the four counters zero and startTime, endTime,
\* processingTime and averageSaving null.
C15_ResetStatsZeroes ==
  [][ResetStats => GetStats(stats') = ZeroSnapshot]_vars

\* The statistics read zero although a conversion was counted before: a
\* resetStats() came after it.
C15_Witness ==
  /\ cache # <<>>
  /\ GetStats(stats) = ZeroSnapshot

\* C16: when a processFolder run has returned, startTime is still the time
\* of the run's own "processing:start", so processingTime spans the run.
C16_BatchStartKept ==
  \A c \in Calls :
    FolderResolved(c) =>
      /\ stats.startTime = calls[c].fstart
      /\ GetStats(stats).processingTime = Value(stats.endTime - calls[c].fstart)

\* C17: getStats() has processingTime non-null exactly when startTime and
\* endTime are both set, and averageSaving non-null exactly when processed > 0.
C17_DerivedStats ==
  LET g == GetStats(stats)
  IN /\ ~g.processingTime.isNull <=> (~g.startTime.isNull /\ ~g.endTime.isNull)
     /\ ~g.averageSaving.isNull <=> stats.processed > 0

\* The extensions of files in the format itself.
OwnExtensions(f) == {FORMAT_MAPPINGS[f].extension, "." \o f}

\* C18: no format of the table accepts an extension of its own as input:
\* the descriptor a processFile call looks up lists none, and a call whose
\* input has an extension of the target format is rejected by the format
\* validation.
C18_NoSelfInput ==
  \A c \in Calls :
    LET r == calls[c]
        f == ToLowerCase(r.format)
    IN r.kind = "file" /\ HasFormat(r.format) =>
         /\ \A e \in OwnExtensions(f) :
              ~Includes(FORMAT_MAPPINGS[f].supportedInputs, e)
         /\ ToLowerCase(r.input.ext) \in OwnExtensions(f) =>
              r.ret.state = "rejected" /\ r.cause = "format"

\* C19: a processFile call whose input does not exist is rejected by the
\* input validation, whatever the target format.
C19_InputValidatedFirst ==
  \A c \in Calls :
    LET r == calls[c]
    IN Settled(c) /\ r.kind = "file" /\ NeverExisted(r.input) =>
         r.ret.state = "rejected" /\ r.cause = "access"

\* The events that end a call.
Terminal(events) ==
  SelectSeq(events, LAMBDA e : e \in {"processing:complete", "error"})

\* C20: a rejected processFile or processFolder call has emitted "error", and
\* a call that emitted "processing:start" emits exactly one of
\* "processing:complete" (it returned) and "error" (it was rejected).
C20_EventProtocol ==
  \A c \in Calls :
    LET r == calls[c]
    IN /\ Settled(c) =>
            /\ r.ev[1] = "processing:start"
            /\ Terminal(r.ev) =
                 IF r.ret.state = "rejected" THEN <<"error">>
                 ELSE <<"processing:complete">>
       /\ (r.kind = "folder" /\ r.pc = "done") =>
            /\ r.fret.state = "rejected" => Terminal(r.fev) = <<"error">>
            /\ r.fret.state = "resolved" =>
                 r.fev = <<"processing:start", "processing:complete">>

\* The files of a run whose processFile call resolved, in order.
ResolvedFiles(log) ==
  [i \in 1..Len(SelectSeq(log, LAMBDA e : e.ret.state = "resolved")) |->
     SelectSeq(log, LAMBDA e : e.ret.state = "resolved")[i].file]

\* C21: a folder convenience method called with a progress callback invokes
\* it as processFolder does: once for each file the run processed.
C21_ConvenienceReportsProgress ==
  \A c \in Calls :
    FolderResolved(c) =>
      [i \in 1..Len(calls[c].cbLog) |-> calls[c].cbLog[i].file]
        = ResolvedFiles(calls[c].log)

\* C29: a processFolder run holds one result per eligible file however the
\* progress callback behaves: with a callback that throws, the results are
\* still as many as the eligible files, each file's own outcome.
C29_OneEntryPerFile ==
  \A c \in Calls :
    FolderResolved(c) =>
      /\ Len(calls[c].results) = Len(calls[c].imageFiles)
      /\ \A i \in 1..Len(calls[c].log) :
           calls[c].log[i].ret.state = "resolved" =>
             calls[c].results[i] = calls[c].log[i].ret.value

\* C22: the options of the cache key and of the codec call are the target
\* format's default options, its default quality included, overridden by the
\* caller's: a key of the caller has the caller's value, any other key its
\* default (format: the format argument, which only the cache key keeps).
C22_MergePriority ==
  \A c \in Calls :
    LET r == calls[c]
        d == FormatDefaults(FormatConfig(r.format))
        g == r.gateway[4]
    IN r.gateway # <<>> =>
         /\ Keys(r.merged) = Keys(d) \cup {"format"} \cup Keys(r.popts)
         /\ \A k \in Keys(r.merged) :
              Get(r.merged, k) =
                IF HasKey(r.popts, k) THEN Get(r.popts, k)
                ELSE IF k = "format" THEN Quote(r.format)
                ELSE Get(d, k)
         /\ Keys(g) = Keys(r.merged) \ {"format"}
         /\ \A k \in Keys(g) : Get(g, k) = Get(r.merged, k)
         /\ (r.kind = "file" /\ r.ret.state = "resolved") =>
              CacheKey(r.input, r.merged) \in DOMAIN cache

\* A conversion whose caller overrode the default quality and left the
\* other defaults alone.
C22_Witness ==
  \E c \in Calls :
    LET r == calls[c]
    IN /\ r.kind = "file" /\ r.ret.state = "resolved" /\ ~r.hit
       /\ r.format = "webp"
       /\ HasKey(r.popts, "quality") /\ ~HasKey(r.popts, "lossless")
       /\ Get(r.popts, "quality") # FormatConfig(r.format).defaultQuality
       /\ Get(r.gateway[4], "quality") = Get(r.popts, "quality")
       /\ Get(r.gateway[4], "lossless") = "false"

\* The cache key of the processFile call with argument list k.
KeyOf(k, input) ==
  CacheKey(input, MergedOptions(FormatConfig(k[3]), k[3], k[4]))

C24_CounterAccounting ==
  \A c \in Calls :
    LET r == calls[c]
        d == [k \in {"processed", "failed", "skipped"} |-> stats[k] - r.stats0[k]]
    IN Settled(c) =>
         /\ d["processed"] + d["failed"] + d["skipped"] = 1
         /\ d["processed"] = IF r.ret.state = "resolved" /\ ~r.hit THEN 1 ELSE 0
         /\ d["skipped"] = IF r.hit THEN 1 ELSE 0
         /\ d["failed"] = IF r.ret.state = "rejected" THEN 1 ELSE 0

\* C25: totalSaved is the sum of the savedSize of the conversions counted in
\* processed: it is zero when processed is, a processFile call (the user's
\* or a folder run's) in progress has changed neither, a call that converted added its result's savedSize and one to
\* processed, and a cache hit or a failure changed neither.
C25_TotalSavedIsSum ==
  /\ stats.processed = 0 => stats.totalSaved = 0
  /\ \A c \in Calls :
       LET r == calls[c]
       IN (r.kind = "file" \/ r.passed # <<>>) =>
            IF r.ret.state = "resolved" /\ ~r.hit
              THEN /\ stats.processed = r.stats0.processed + 1
                   /\ stats.totalSaved =
                        r.stats0.totalSaved + r.ret.value.stats.savedSize
              ELSE /\ stats.processed = r.stats0.processed
                   /\ stats.totalSaved = r.stats0.totalSaved

\* A conversion that made the file larger, counted after one that saved.
C25_Witness ==
  \E c \in Calls :
    LET r == calls[c]
    IN /\ Settled(c) /\ r.ret.state = "resolved" /\ ~r.hit
       /\ r.stats0.processed = 1 /\ r.stats0.totalSaved > 0
       /\ r.ret.value.stats.savedSize < 0
       /\ stats.totalSaved = r.stats0.totalSaved + r.ret.value.stats.savedSize

\* C26: processFolder handles its files strictly one after another: the
\* file handed to processFile last is the only one in progress; every file
\* before it has settled, has its result entry, and its callback (if any) was
\* called; the codec call in flight, if any, is the current file's.
C26_Sequential ==
  \A c \in Calls :
    LET r == calls[c]
        n == Len(r.log)
    IN (r.kind = "folder" /\ r.passed # <<>>) =>
         /\ r.passed = SubSeq(r.imageFiles, 1, Len(r.passed))
         /\ Len(r.passed) = n + (IF r.fret.state = "pending" THEN 1 ELSE 0)
         /\ r.index = n
         /\ \A i \in 1..n :
              /\ r.log[i].file = r.passed[i]
              /\ r.log[i].ret.state # "pending"
         /\ Len(r.results) = n
         /\ \A j \in 1..Len(r.cbLog) :
              \E i \in 1..n : r.cbLog[j].file = r.log[i].file
         /\ r.fret.state = "pending" =>
              r.input = Join(Folder, r.passed[n + 1].name, r.passed[n + 1].ext)
         /\ r.pc \in {"sharp", "statOut", "unlink"} =>
              r.gateway[1] = PathStr(Join(Folder, r.passed[n + 1].name,
                                          r.passed[n + 1].ext))

\* The codec call of a run's second file is in flight; the first file's
\* callback has been called.
C26_Witness ==
  \E c \in Calls :
    /\ calls[c].kind = "folder" /\ calls[c].pc = "sharp"
    /\ Len(calls[c].log) = 1 /\ Len(calls[c].cbLog) = 1
    /\ Len(calls[c].passed) = 2

\* A processFolder run of slot c is in progress.
FolderRunning(c) == calls[c].kind = "folder" /\ calls[c].fret.state = "pending"

\* C27: when every filesystem and codec call returns, a processFolder run
\* completes, and a run that returned its results handed each eligible file
\* to processFile exactly once, in the listing's order.
C27_Termination ==
  /\ \A c \in Calls : FolderRunning(c) ~> ~FolderRunning(c)
  /\ [](\A c \in Calls :
          FolderResolved(c) =>
            /\ calls[c].passed = calls[c].imageFiles
            /\ Len(calls[c].log) = Len(calls[c].imageFiles)
            /\ \A i, j \in 1..Len(calls[c].passed) :
                 calls[c].passed[i] = calls[c].passed[j] => i = j)

\* A run completed after the codec failed on one of its files.
C27_Witness ==
  \E c \in Calls :
    /\ FolderResolved(c)
    /\ Len(calls[c].imageFiles) >= 2
    /\ \E i \in 1..Len(calls[c].log) : calls[c].log[i].cause = "codec"

\* C28: the output directory is created only on a cache miss after the
\* input passed validation: a processFile call whose input file is missing
\* made no fs.mkdir, nor did a call served from the cache.
C28_MkdirAfterValidation ==
  \A c \in Calls :
    (Settled(c) /\ "mkdir" \in calls[c].io) =>
      /\ calls[c].cause # "access"
      /\ ~calls[c].hit

\* C30: failures are never cached: every cache entry is a success result
\* that a conversion returned, a rejected call left the cache as it was, and
\* a call that repeats a failed call's arguments is not served from the cache:
\* if it gets as far as the lookup it calls the codec.
C30_FailuresNotCached ==
  /\ \A k \in DOMAIN cache :
       /\ cache[k].success
       /\ \E h \in DOMAIN hist : hist[h].result = cache[k]
  /\ \A c \in Calls :
       LET r == calls[c]
       IN /\ (Settled(c) /\ r.ret.state = "rejected") => cache = r.cache0
          /\ r.retry # "" =>
               /\ ~r.hit
               /\ r.inputSize # 0 => r.gateway # <<>>
               /\ r.ret.state = "resolved" => "sharp" \in r.io

\* The codec failed, the caller repeated the call, and the codec was called
\* again and succeeded.
C30_Witness ==
  \E c \in Calls :
    /\ calls[c].retry = "codec"
    /\ calls[c].ret.state = "resolved"
    /\ "sharp" \in calls[c].io
    /\ cache # <<>>

\* C31 (as claimed): when processFile returned a success result, a codec
\* call has written the call's output path, also when the result came from
\* the cache.
C31_OutputWritten ==
  \A c \in Calls :
    (Settled(c) /\ calls[c].ret.state = "resolved") =>
      PathStr(calls[c].output) \in written

\* C31 (amended): a success result that a conversion produced means the
\* codec wrote the call's output path during the call; a call served from the
\* cache made no codec call, whatever its output path.
C31_OutputWrittenOnMiss ==
  \A c \in Calls :
    LET r == calls[c]
    IN (Settled(c) /\ r.ret.state = "resolved") =>
         IF r.hit
           THEN "sharp" \notin r.io /\ r.gateway = <<>>
           ELSE /\ "sharp" \in r.io
                /\ r.gateway[2] = PathStr(r.output)
                /\ PathStr(r.output) \in written

\* A call was served from the cache and its output path was never written.
C31_Witness ==
  \E c \in Calls :
    /\ Settled(c) /\ calls[c].ret.state = "resolved" /\ calls[c].hit
    /\ PathStr(calls[c].output) \notin written
    /\ written # {}

\* C32: within one processFolder run, distinct eligible files are written
\* to distinct output paths.
C32_DistinctOutputs ==
  \A c \in Calls :
    calls[c].kind = "folder" =>
      \A i, j \in 1..Len(calls[c].log) :
        calls[c].log[i].file # calls[c].log[j].file =>
          calls[c].log[i].output # calls[c].log[j].output

\* C33: two overlapping processFile calls with the same input and options
\* that both returned a result called the codec once between them, and
\* counted one conversion and one skip.
C33_OverlapUsesCache ==
  \A c, d \in Calls :
    LET r == calls[c]
        s == calls[d]
    IN (/\ c # d
        /\ r.kind = "file" /\ s.kind = "file"
        /\ s.overlaps
        /\ ArgsKey(r.input, r.outputArg, r.format, r.popts)
             = ArgsKey(s.input, s.outputArg, s.format, s.popts)
        /\ r.ret.state = "resolved" /\ s.ret.state = "resolved")
       => /\ ~("sharp" \in r.io /\ "sharp" \in s.io)
          /\ stats.processed = r.stats0.processed + 1
          /\ stats.processed + stats.skipped
               = r.stats0.processed + r.stats0.skipped + 2

\* C34: when no call is in flight, getStats().processingTime is null or not
\* negative: endTime is not earlier than startTime.
C34_ProcessingTimeNotNegative ==
  Quiet =>
    \/ GetStats(stats).processingTime.isNull
    \/ GetStats(stats).processingTime.value >= 0

\* The format the command line asked for: the lower-cased value of its
\* format argument, when the loop does not skip it ("" when there is none).
RECURSIVE Requested(_)
Requested(args) ==
  IF args = <<>> THEN ""
  ELSE LET last == args[Len(args)]
       IN IF ToLowerCase(last[1]) = "format" /\ Truthy(last[2]) /\ IsString(last[2])
            THEN ToLowerCase(last[2].s)
            ELSE Requested(SubSeq(args, 1, Len(args) - 1))

\* C35: the options optionsConvert returns have a format other than png only
\* when the requested format is a supported one (of CONFIG.SUPPORTED_FORMATS,
\* or of the list the command passed): an unsupported value leaves png.
C35_UnsupportedFormatIgnored ==
  conv.ret.state = "resolved" =>
    LET supported ==
          {CONFIG.SUPPORTED_FORMATS[i] : i \in 1..Len(CONFIG.SUPPORTED_FORMATS)}
          \cup {conv.others.supportedFormats.list[i] :
                  i \in 1..Len(conv.others.supportedFormats.list)}
    IN IF Requested(conv.args) \in supported
         THEN conv.parser.format \in supported
         ELSE conv.parser.format = CONFIG.DEFAULT_FORMAT

\* C36: under any interleaving of change notifications and timer callbacks,
\* a path has at most one reload that is scheduled or running, and every
\* pending debounce timer of a path is the one recorded for it in
\* debounceTimers, so that the next notification cancels it.
C36_OneReloadPerPath ==
  \A p \in AbsolutePaths :
    /\ Cardinality({t \in loader.timers : t.path = p}) <= 1
    /\ \A t \in loader.timers :
         (t.path = p /\ t.pc = "pending") =>
           (p \in DOMAIN loader.debounceTimers /\ loader.debounceTimers[p] = t.id)

\* C37: when unwatchAll has run it has returned without throwing, no path is
\* watched, every watcher is closed and the module, version and error entries
\* of the paths that were watched are gone; when the error handler of a
\* watcher has run it has not thrown, and the watcher and the entries of its
\* path are gone.
C37_UnwatchRemoves ==
  /\ loader.last.op = "unwatchAll" =>
       /\ ~loader.last.threw
       /\ loader.watchedFiles = <<>>
       /\ DOMAIN loader.watchers = {}
       /\ \A p \in loader.last.watched :
            /\ p \notin loader.moduleCache
            /\ p \notin DOMAIN loader.moduleVersions
            /\ p \notin loader.moduleErrors
  /\ loader.last.op = "watchError" =>
       LET p == loader.last.path
       IN /\ ~loader.last.threw
          /\ ~Includes(loader.watchedFiles, p)
          /\ p \notin DOMAIN loader.watchers
          /\ p \notin loader.moduleCache
          /\ p \notin DOMAIN loader.moduleVersions
          /\ p \notin loader.moduleErrors

====
